---------------------------- MODULE Spec2Model ----------------------------
(***************************************************************************)
(* A model of the content risk scoring core of ohmymsg:                    *)
(*   - EnhancedIDNDetector (src/src/idn-detector.ts): the homograph /      *)
(*     domain risk analyzer and its cache;                                 *)
(*   - SpamScanner.scan (src/src/mod.ts): the fan-out of the eight         *)
(*     detectors, the fan-in (Promise.all), the verdict and the message.   *)
(*                                                                         *)
(* Conventions.                                                            *)
(*   - A JavaScript string is the sequence of its code points; the length  *)
(*     in UTF-16 code units is computed where the code uses .length or     *)
(*     .charAt (Utf16).                                                    *)
(*   - A JavaScript number that carries a score is an exact rational       *)
(*     <<n, d>> in lowest terms (d > 0).  IEEE rounding is not modelled.   *)
(*   - A JavaScript value that may be null or undefined is a record with   *)
(*     a tag t.                                                            *)
(***************************************************************************)
EXTENDS Integers, Sequences, FiniteSets, TLC

---------------------------------------------------------------------------
(* JavaScript values                                                       *)

JsNull == [t |-> "null"]
JsUndefined == [t |-> "undefined"]
JsStr(s) == [t |-> "string", v |-> s]
JsNum(r) == [t |-> "number", v |-> r]

---------------------------------------------------------------------------
(* Exact rationals                                                         *)

RECURSIVE Gcd(_, _)
Gcd(a, b) == IF b = 0 THEN a ELSE Gcd(b, a % b)

Abs(x) == IF x < 0 THEN -x ELSE x

R(n, d) ==
  LET g == Gcd(Abs(n), d) IN
  IF g = 0 THEN <<0, 1>> ELSE <<n \div g, d \div g>>

RAdd(x, y) == R(x[1] * y[2] + y[1] * x[2], x[2] * y[2])
RMul(x, y) == R(x[1] * y[1], x[2] * y[2])
RLt(x, y) == x[1] * y[2] < y[1] * x[2]
RLe(x, y) == x[1] * y[2] <= y[1] * x[2]
RMin(x, y) == IF RLt(y, x) THEN y ELSE x
RMax(x, y) == IF RLt(x, y) THEN y ELSE x
RZero == R(0, 1)
ROne == R(1, 1)

\* (x * 100).toFixed(1), as the number of tenths of a percent (round half up)
ToFixed1Percent(x) == (2000 * x[1] + x[2]) \div (2 * x[2])

---------------------------------------------------------------------------
(* Strings as sequences of code points                                     *)

\* s.includes(sub)
Includes(s, sub) ==
  \E i \in 1..(Len(s) - Len(sub) + 1) : SubSeq(s, i, i + Len(sub) - 1) = sub

\* s ends with suffix
EndsWith(s, suffix) ==
  /\ Len(suffix) <= Len(s)
  /\ SubSeq(s, Len(s) - Len(suffix) + 1, Len(s)) = suffix

\* String.prototype.toLowerCase on one code point: ASCII, the Cyrillic and
\* the Greek capitals; every other code point of the model's alphabet has no
\* lower-case mapping.
LowerCp(cp) ==
  IF cp >= 65 /\ cp <= 90 THEN cp + 32
  ELSE IF cp >= 1040 /\ cp <= 1071 THEN cp + 32
  ELSE IF cp >= 1024 /\ cp <= 1039 THEN cp + 80
  ELSE IF cp >= 913 /\ cp <= 929 THEN cp + 32
  ELSE IF cp >= 931 /\ cp <= 939 THEN cp + 32
  ELSE cp

ToLowerCase(s) == [i \in 1..Len(s) |-> LowerCp(s[i])]

\* The UTF-16 code units of a string (.length and .charAt work on these).
RECURSIVE Utf16(_)
Utf16(s) ==
  IF s = <<>> THEN <<>>
  ELSE LET cp == Head(s) IN
       (IF cp > 65535
          THEN <<55296 + ((cp - 65536) \div 1024), 56320 + ((cp - 65536) % 1024)>>
          ELSE <<cp>>) \o Utf16(Tail(s))

---------------------------------------------------------------------------
(* Tables of idn-detector.ts                                               *)

CONFUSABLE_KEYS ==
  {1072, 1077, 1086, 1088, 1089, 1093, 1091, 1040, 1042, 1045, 1050, 1052,
   1053, 1054, 1056, 1057, 1058, 1061, 1059, 945, 959, 961, 965, 957, 953,
   913, 914, 917, 918, 919, 921, 922, 924, 925, 927, 929, 932, 933, 119834,
   119835, 119836, 119837, 119838, 120782, 120783, 120784, 120785, 120786,
   8495, 8458, 8462, 8467, 8500, 8560, 8561, 8562, 8563, 8564}

\* CONFUSABLE_CHARS.get(cp), for cp \in CONFUSABLE_KEYS
CONFUSABLE_CHARS(cp) ==
  CASE cp = 1072 -> <<97>>      \* U+0430 -> "a"
    [] cp = 1077 -> <<101>>     \* U+0435 -> "e"
    [] cp = 1086 -> <<111>>     \* U+043E -> "o"
    [] cp = 1088 -> <<112>>     \* U+0440 -> "p"
    [] cp = 1089 -> <<99>>      \* U+0441 -> "c"
    [] cp = 1093 -> <<120>>     \* U+0445 -> "x"
    [] cp = 1091 -> <<121>>     \* U+0443 -> "y"
    [] cp = 1040 -> <<65>>      \* U+0410 -> "A"
    [] cp = 1042 -> <<66>>      \* U+0412 -> "B"
    [] cp = 1045 -> <<69>>      \* U+0415 -> "E"
    [] cp = 1050 -> <<75>>      \* U+041A -> "K"
    [] cp = 1052 -> <<77>>      \* U+041C -> "M"
    [] cp = 1053 -> <<72>>      \* U+041D -> "H"
    [] cp = 1054 -> <<79>>      \* U+041E -> "O"
    [] cp = 1056 -> <<80>>      \* U+0420 -> "P"
    [] cp = 1057 -> <<67>>      \* U+0421 -> "C"
    [] cp = 1058 -> <<84>>      \* U+0422 -> "T"
    [] cp = 1061 -> <<88>>      \* U+0425 -> "X"
    [] cp = 1059 -> <<89>>      \* U+0423 -> "Y"
    [] cp = 945 -> <<97>>       \* U+03B1 -> "a"
    [] cp = 959 -> <<111>>      \* U+03BF -> "o"
    [] cp = 961 -> <<112>>      \* U+03C1 -> "p"
    [] cp = 965 -> <<117>>      \* U+03C5 -> "u"
    [] cp = 957 -> <<118>>      \* U+03BD -> "v"
    [] cp = 953 -> <<105>>      \* U+03B9 -> "i"
    [] cp = 913 -> <<65>>       \* U+0391 -> "A"
    [] cp = 914 -> <<66>>       \* U+0392 -> "B"
    [] cp = 917 -> <<69>>       \* U+0395 -> "E"
    [] cp = 918 -> <<90>>       \* U+0396 -> "Z"
    [] cp = 919 -> <<72>>       \* U+0397 -> "H"
    [] cp = 921 -> <<73>>       \* U+0399 -> "I"
    [] cp = 922 -> <<75>>       \* U+039A -> "K"
    [] cp = 924 -> <<77>>       \* U+039C -> "M"
    [] cp = 925 -> <<78>>       \* U+039D -> "N"
    [] cp = 927 -> <<79>>       \* U+039F -> "O"
    [] cp = 929 -> <<80>>       \* U+03A1 -> "P"
    [] cp = 932 -> <<84>>       \* U+03A4 -> "T"
    [] cp = 933 -> <<89>>       \* U+03A5 -> "Y"
    [] cp = 119834 -> <<97>>    \* U+1D41A -> "a"
    [] cp = 119835 -> <<98>>    \* U+1D41B -> "b"
    [] cp = 119836 -> <<99>>    \* U+1D41C -> "c"
    [] cp = 119837 -> <<100>>   \* U+1D41D -> "d"
    [] cp = 119838 -> <<101>>   \* U+1D41E -> "e"
    [] cp = 120782 -> <<48>>    \* U+1D7CE -> "0"
    [] cp = 120783 -> <<49>>    \* U+1D7CF -> "1"
    [] cp = 120784 -> <<50>>    \* U+1D7D0 -> "2"
    [] cp = 120785 -> <<51>>    \* U+1D7D1 -> "3"
    [] cp = 120786 -> <<52>>    \* U+1D7D2 -> "4"
    [] cp = 8495 -> <<101>>     \* U+212F -> "e"
    [] cp = 8458 -> <<103>>     \* U+210A -> "g"
    [] cp = 8462 -> <<104>>     \* U+210E -> "h"
    [] cp = 8467 -> <<108>>     \* U+2113 -> "l"
    [] cp = 8500 -> <<111>>     \* U+2134 -> "o"
    [] cp = 8560 -> <<105>>     \* U+2170 -> "i"
    [] cp = 8561 -> <<105, 105>>       \* U+2171 -> "ii"
    [] cp = 8562 -> <<105, 105, 105>>  \* U+2172 -> "iii"
    [] cp = 8563 -> <<105, 118>>       \* U+2173 -> "iv"
    [] cp = 8564 -> <<118>>     \* U+2174 -> "v"

LEGITIMATE_IDN_DOMAINS ==
  { <<120, 110, 45, 45, 102, 115, 113, 46, 120, 110, 45, 45, 48, 122, 119,
      109, 53, 54, 100>>,                                \* xn--fsq.xn--0zwm56d
    <<120, 110, 45, 45, 102, 105, 113, 115, 56, 115>>,   \* xn--fiqs8s
    <<120, 110, 45, 45, 102, 105, 113, 122, 57, 115>>,   \* xn--fiqz9s
    <<120, 110, 45, 45, 106, 54, 119, 49, 57, 51, 103>>, \* xn--j6w193g
    <<120, 110, 45, 45, 53, 53, 113, 120, 53, 100>>,     \* xn--55qx5d
    <<120, 110, 45, 45, 105, 111, 48, 97, 55, 105>> }    \* xn--io0a7i

\* the suffixes of TLD_REGEX = /\.(com|org|net|edu|gov)$/
TLD_SUFFIXES ==
  << <<46, 99, 111, 109>>,    \* .com
     <<46, 111, 114, 103>>,   \* .org
     <<46, 110, 101, 116>>,   \* .net
     <<46, 101, 100, 117>>,   \* .edu
     <<46, 103, 111, 118>> >> \* .gov

\* the seven SUSPICIOUS_PATTERNS, by index: urgent, verify.*account,
\* suspended, click.*here, limited.*time, act.*now, confirm.*identity
SUSPICIOUS_PATTERNS == 1..7

POPULAR_BRANDS ==
  << <<103, 111, 111, 103, 108, 101>>,                       \* google
     <<102, 97, 99, 101, 98, 111, 111, 107>>,                \* facebook
     <<97, 109, 97, 122, 111, 110>>,                         \* amazon
     <<97, 112, 112, 108, 101>>,                             \* apple
     <<109, 105, 99, 114, 111, 115, 111, 102, 116>>,         \* microsoft
     <<116, 119, 105, 116, 116, 101, 114>>,                  \* twitter
     <<105, 110, 115, 116, 97, 103, 114, 97, 109>>,          \* instagram
     <<108, 105, 110, 107, 101, 100, 105, 110>>,             \* linkedin
     <<121, 111, 117, 116, 117, 98, 101>>,                   \* youtube
     <<110, 101, 116, 102, 108, 105, 120>>,                  \* netflix
     <<112, 97, 121, 112, 97, 108>>,                         \* paypal
     <<101, 98, 97, 121>>,                                   \* ebay
     <<121, 97, 104, 111, 111>>,                             \* yahoo
     <<97, 100, 111, 98, 101>>,                              \* adobe
     <<115, 97, 108, 101, 115, 102, 111, 114, 99, 101>>,     \* salesforce
     <<111, 114, 97, 99, 108, 101>>,                         \* oracle
     <<105, 98, 109>>,                                       \* ibm
     <<99, 105, 115, 99, 111>>,                              \* cisco
     <<105, 110, 116, 101, 108>>,                            \* intel
     <<110, 118, 105, 100, 105, 97>>,                        \* nvidia
     <<116, 101, 115, 108, 97>>,                             \* tesla
     <<99, 105, 116, 105, 98, 97, 110, 107>>,                \* citibank
     <<98, 97, 110, 107, 111, 102, 97, 109, 101, 114, 105, 99, 97>>,
                                                             \* bankofamerica
     <<119, 101, 108, 108, 115, 102, 97, 114, 103, 111>>,    \* wellsfargo
     <<99, 104, 97, 115, 101>>,                              \* chase
     <<97, 109, 101, 114, 105, 99, 97, 110, 101, 120, 112, 114, 101, 115,
       115>> >>                                              \* americanexpress

\* "xn--", the punycode prefix marker
XN == <<120, 110, 45, 45>>

\* "brand", the word generateRecommendations looks for in a risk factor
BRAND_WORD == <<98, 114, 97, 110, 100>>

---------------------------------------------------------------------------
(* EnhancedIDNDetector: the analysis (idn-detector.ts)                     *)

\* The options of an analyzer built without arguments (constructor).
DefaultIDNOptions ==
  [ strictMode |-> FALSE,
    enableWhitelist |-> TRUE,
    enableBrandProtection |-> TRUE,
    enableContextAnalysis |-> TRUE,
    maxSimilarityThreshold |-> R(8, 10),
    minDomainAge |-> R(30, 1) ]

\* new EnhancedIDNDetector(options): the defaults, overridden by the options
\* given (a function from option names), and an empty cache.
NewEnhancedIDNDetector(options) ==
  [ options |-> [k \in DOMAIN DefaultIDNOptions |->
                   IF k \in DOMAIN options THEN options[k]
                   ELSE DefaultIDNOptions[k]],
    cache |-> <<>> ]

\* The options SpamScanner.getIDNDetector builds the analyzer with.
ScannerIDNOptions(strictIDNDetection) ==
  [ strictMode |-> strictIDNDetection,
    enableWhitelist |-> TRUE,
    enableBrandProtection |-> TRUE,
    enableContextAnalysis |-> TRUE ]

IsAscii(s) == \A i \in 1..Len(s) : s[i] <= 127

\* NON_ASCII_REGEX.test(domain)
HasNonAscii(s) == \E i \in 1..Len(s) : s[i] > 127

isIDNDomain(domain) == Includes(domain, XN) \/ HasNonAscii(domain)

\* (variant: the whitelist looked up without lower-casing the domain)
isWhitelistedAsGiven(domain) == domain \in LEGITIMATE_IDN_DOMAINS

isWhitelisted(domain) == ToLowerCase(domain) \in LEGITIMATE_IDN_DOMAINS

\* The factors pushed by the loop of analyzeConfusableCharacters, in order.
RECURSIVE ConfusableFactors(_)
ConfusableFactors(domain) ==
  IF domain = <<>> THEN <<>>
  ELSE (IF Head(domain) \in CONFUSABLE_KEYS
          THEN << [kind |-> "Confusable character", char |-> Head(domain),
                   latin |-> CONFUSABLE_CHARS(Head(domain))] >>
          ELSE <<>>) \o ConfusableFactors(Tail(domain))

analyzeConfusableCharacters(domain) ==
  LET Counted(perChar, confusableCount, totalChars) ==
        IF confusableCount > 0
          THEN [ score |-> RMin(RMul(R(confusableCount, totalChars), R(8, 10)),
                                R(6, 10)),
                 factors |-> Append(perChar,
                               [kind |-> "characters are confusable",
                                count |-> confusableCount,
                                total |-> totalChars]) ]
          ELSE [ score |-> RZero, factors |-> <<>> ]
      Loop(perChar) == Counted(perChar, Len(perChar), Len(domain))
  IN Loop(ConfusableFactors(domain))

\* normalized.replaceAll(confusable, latin) for every entry of the table:
\* every replacement is ASCII and every key is not, so the order of the
\* entries does not matter and the loop is a per-character substitution.
RECURSIVE ReplaceConfusables(_)
ReplaceConfusables(s) ==
  IF s = <<>> THEN <<>>
  ELSE (IF Head(s) \in CONFUSABLE_KEYS THEN CONFUSABLE_CHARS(Head(s))
        ELSE <<Head(s)>>) \o ReplaceConfusables(Tail(s))

\* normalized.replace(TLD_REGEX, "")
RECURSIVE StripTld(_, _)
StripTld(s, i) ==
  IF i > Len(TLD_SUFFIXES) THEN s
  ELSE IF EndsWith(s, TLD_SUFFIXES[i])
         THEN SubSeq(s, 1, Len(s) - Len(TLD_SUFFIXES[i]))
         ELSE StripTld(s, i + 1)

normalizeDomain(domain) ==
  StripTld(ReplaceConfusables(ToLowerCase(domain)), 1)

Min3(a, b, c) ==
  IF a <= b THEN (IF a <= c THEN a ELSE c) ELSE (IF b <= c THEN b ELSE c)

\* One row of the matrix of calculateSimilarity: row i (for string2[i]) from
\* row i-1.  A row is the sequence matrix[i][0..length1], stored from 1.
RECURSIVE LevRow(_, _, _, _, _)
LevRow(prevRow, ch, string1, j, currentRow) ==
  IF j > Len(string1) THEN currentRow
  ELSE LevRow(prevRow, ch, string1, j + 1,
         Append(currentRow,
           IF ch = string1[j]
             THEN prevRow[j]
             ELSE Min3(prevRow[j] + 1, currentRow[j] + 1, prevRow[j + 1] + 1)))

RECURSIVE LevRows(_, _, _, _)
LevRows(prevRow, string1, string2, i) ==
  IF i > Len(string2) THEN prevRow
  ELSE LET currentRow == LevRow(prevRow, string2[i], string1, 1, <<i>>)
       IN \* (the test makes TLC compute row i before it goes on to row i+1)
          IF Len(currentRow) = 0 THEN currentRow
          ELSE LevRows(currentRow, string1, string2, i + 1)

\* calculateSimilarity works on UTF-16 code units (.length, .charAt)
calculateSimilarity(s1, s2) ==
  LET Ratio(distance, maxLength) == R(maxLength - distance, maxLength)
      Matrix(string1, string2, length1, length2) ==
        IF length1 = 0 THEN (IF length2 = 0 THEN ROne ELSE RZero)
        ELSE IF length2 = 0 THEN RZero
        ELSE Ratio(LevRows([j \in 1..(length1 + 1) |-> j - 1],
                           string1, string2, 1)[length1 + 1],
                   IF length1 > length2 THEN length1 ELSE length2)
      Strings(string1, string2) ==
        Matrix(string1, string2, Len(string1), Len(string2))
  IN Strings(Utf16(s1), Utf16(s2))

\* this.options.maxSimilarityThreshold || 0.8
SimilarityThreshold(options) ==
  IF options.maxSimilarityThreshold = RZero THEN R(8, 10)
  ELSE options.maxSimilarityThreshold

\* The loop over POPULAR_BRANDS: the brands whose similarity passes the
\* threshold, in the order of the table, each pushing a factor; the score is
\* the largest similarity * 0.7 among them (Math.max from 0).
analyzeBrandSimilarity(options, domain) ==
  LET Largest(scores) == CHOOSE m \in scores : \A t \in scores : RLe(t, m)
      Pushed(similarity, passing) ==
        [ score |-> IF passing = <<>> THEN RZero
                    ELSE Largest({RMul(similarity[passing[k]], R(7, 10)) :
                                    k \in 1..Len(passing)}),
          factors |-> [k \in 1..Len(passing) |->
                         [ kind |-> "High similarity to",
                           brand |-> POPULAR_BRANDS[passing[k]],
                           percent |-> ToFixed1Percent(similarity[passing[k]]) ]] ]
      Compared(similarity, threshold) ==
        Pushed(similarity,
               SelectSeq([i \in 1..Len(POPULAR_BRANDS) |-> i],
                         LAMBDA i : RLt(threshold, similarity[i])))
      Brands(cleanDomain) ==
        Compared([i \in 1..Len(POPULAR_BRANDS) |->
                    calculateSimilarity(cleanDomain, POPULAR_BRANDS[i])],
                 SimilarityThreshold(options))
  IN Brands(normalizeDomain(domain))

ScriptOf(code) ==
  IF (code >= 65 /\ code <= 90) \/ (code >= 97 /\ code <= 122) THEN "Latin"
  ELSE IF code >= 1024 /\ code <= 1279 THEN "Cyrillic"
  ELSE IF code >= 880 /\ code <= 1023 THEN "Greek"
  ELSE IF code >= 19968 /\ code <= 40959 THEN "CJK"
  ELSE IF code >= 1424 /\ code <= 1535 THEN "Hebrew"
  ELSE IF code >= 1536 /\ code <= 1791 THEN "Arabic"
  ELSE "none"

\* detectScripts: the Set of scripts, in insertion order
RECURSIVE detectScriptsFrom(_, _)
detectScriptsFrom(domain, scripts) ==
  IF domain = <<>> THEN scripts
  ELSE LET sc == ScriptOf(Head(domain)) IN
       detectScriptsFrom(Tail(domain),
         IF sc = "none" \/ (\E k \in 1..Len(scripts) : scripts[k] = sc)
           THEN scripts ELSE Append(scripts, sc))

detectScripts(domain) == detectScriptsFrom(domain, <<>>)

SeqHas(seq, x) == \E k \in 1..Len(seq) : seq[k] = x

analyzeScriptMixing(domain) ==
  LET Mixing(scripts) ==
        IF Len(scripts) > 1
          THEN IF SeqHas(scripts, "Latin")
                  /\ (SeqHas(scripts, "Cyrillic") \/ SeqHas(scripts, "Greek"))
                 THEN [ score |-> R(4, 10),
                        factors |-> << [kind |-> "Mixed scripts detected",
                                        scripts |-> scripts],
                                       [kind |-> "Suspicious Latin/Cyrillic or Latin/Greek mixing"] >> ]
                 ELSE [ score |-> R(2, 10),
                        factors |-> << [kind |-> "Mixed scripts detected",
                                        scripts |-> scripts] >> ]
          ELSE [ score |-> RZero, factors |-> <<>> ]
  IN Mixing(detectScripts(domain))

\* A context is a record of the four fields of IDNContext; an absent field
\* is JsUndefined.  emailContent is a string described by what the code
\* reads of it: whether it is empty and which SUSPICIOUS_PATTERNS match it
\* (id tells two texts apart).
Context(emailContent, displayText, senderReputation, emailHeaders) ==
  [ emailContent |-> emailContent, displayText |-> displayText,
    senderReputation |-> senderReputation, emailHeaders |-> emailHeaders ]

Content(id, hits) == JsStr([id |-> id, empty |-> FALSE, hits |-> hits])
EmptyContent == JsStr([id |-> "", empty |-> TRUE, hits |-> {}])

\* truthiness of context.emailContent, context.displayText (a string of code
\* points) and context.senderReputation
ContentTruthy(x) == x.t = "string" /\ ~x.v.empty
TextTruthy(x) == x.t = "string" /\ x.v # <<>>
NumberTruthy(x) == x.t = "number" /\ x.v # RZero

\* the loop over SUSPICIOUS_PATTERNS, in the order of the table
RECURSIVE PatternLoop(_, _, _)
PatternLoop(hits, i, analysis) ==
  IF i > 7 THEN analysis
  ELSE PatternLoop(hits, i + 1,
         IF i \in hits
           THEN [ score |-> RAdd(analysis.score, R(1, 10)),
                  factors |-> Append(analysis.factors,
                     [kind |-> "Suspicious email pattern", pattern |-> i]) ]
           ELSE analysis)

analyzeContext(domain, context) ==
  LET Patterns(analysis) ==
        IF ContentTruthy(context.emailContent)
          THEN PatternLoop(context.emailContent.v.hits, 1, analysis)
          ELSE analysis
      Reputation(analysis) ==
        Patterns(IF NumberTruthy(context.senderReputation)
                    /\ RLt(context.senderReputation.v, R(5, 10))
                   THEN [ score |-> RAdd(analysis.score, R(2, 10)),
                          factors |-> Append(analysis.factors,
                             [kind |-> "Low sender reputation"]) ]
                   ELSE analysis)
      Display(analysis) ==
        Reputation(IF TextTruthy(context.displayText)
                      /\ context.displayText.v # domain
                     THEN [ score |-> RAdd(analysis.score, R(3, 10)),
                            factors |-> Append(analysis.factors,
                               [kind |-> "Display text differs from actual domain"]) ]
                     ELSE analysis)
  IN Display([score |-> RZero, factors |-> <<>>])

\* The labels of a host name (split at ".")
RECURSIVE SplitLabels(_, _)
SplitLabels(s, cur) ==
  IF s = <<>> THEN <<cur>>
  ELSE IF Head(s) = 46 THEN <<cur>> \o SplitLabels(Tail(s), <<>>)
  ELSE SplitLabels(Tail(s), Append(cur, Head(s)))

RECURSIVE JoinLabels(_)
JoinLabels(labels) ==
  IF Len(labels) = 1 THEN labels[1]
  ELSE labels[1] \o <<46>> \o JoinLabels(Tail(labels))

\* The ASCII (punycode) form the URL parser gives a non-ASCII label, without
\* its "xn--" prefix: the labels the model's domains use; any other label
\* gets "?", an ASCII label the model does not compute.
PunycodeOfLabel(label) ==
  CASE label = <<1072, 112, 112, 108, 101>>
         -> <<112, 112, 108, 101, 45, 52, 51, 100>>           \* pple-43d
    [] label = <<1072, 1088, 1088, 1231, 1077>>
         -> <<56, 48, 97, 107, 54, 97, 97, 57, 50, 101>>      \* 80ak6aa92e
    [] label = <<20013, 22269>>
         -> <<102, 105, 113, 115, 56, 115>>                   \* fiqs8s
    [] OTHER -> <<63>>

\* The compatibility mapping of the URL parser (UTS 46) on the code points of
\* the model's alphabet: the letterlike symbols, the small Roman numerals and
\* the mathematical letters and digits become the ASCII characters they
\* stand for (the ones CONFUSABLE_CHARS lists for them); Cyrillic and Greek
\* letters stay.
RECURSIVE Uts46Mapped(_)
Uts46Mapped(s) ==
  IF s = <<>> THEN <<>>
  ELSE (IF Head(s) \in CONFUSABLE_KEYS /\ Head(s) >= 8458
          THEN CONFUSABLE_CHARS(Head(s)) ELSE <<Head(s)>>)
       \o Uts46Mapped(Tail(s))

\* new URL(`http://${domain}`).hostname: the host in its ASCII form, lower
\* case.  The parser refuses an empty host and a label that starts with xn--
\* and is not ASCII; every ASCII label of the model's domains is taken to be
\* a valid one.
URLHostname(domain) ==
  LET Host(labels) ==
        IF \/ domain = <<>>
           \/ \E i \in 1..Len(labels) :
                HasNonAscii(labels[i]) /\ Len(labels[i]) >= 4
                /\ SubSeq(labels[i], 1, 4) = XN
          THEN [threw |-> TRUE]
          ELSE [ threw |-> FALSE,
                 hostname |-> JoinLabels(
                    [i \in 1..Len(labels) |->
                       IF HasNonAscii(labels[i])
                         THEN XN \o PunycodeOfLabel(labels[i])
                         ELSE labels[i]]) ]
  IN Host(SplitLabels(Uts46Mapped(ToLowerCase(domain)), <<>>))

decodePunycode(domain) ==
  LET Hostname(url) == IF url.threw THEN domain ELSE url.hostname
  IN Hostname(URLHostname(domain))

\* decodePunycode catches every exception itself, so the try block of
\* analyzePunycode never throws and its catch branch (score 0.2, "Invalid
\* punycode encoding") is not taken.
analyzePunycode(domain) ==
  LET Analysed(decoded, decodedAnalysis) ==
        [ score |-> RMul(decodedAnalysis.score, R(8, 10)),
          factors |-> << [kind |-> "Punycode decoded", decoded |-> decoded] >>
                      \o decodedAnalysis.factors ]
      Decoded(decoded) == Analysed(decoded, analyzeConfusableCharacters(decoded))
  IN Decoded(decodePunycode(domain))

\* f.includes("brand") for a risk factor f: the fixed words of the factor
\* texts do not contain "brand", so only the strings spliced into them can.
FactorIncludesBrand(f) ==
  CASE f.kind = "High similarity to" -> Includes(f.brand, BRAND_WORD)
    [] f.kind = "Punycode decoded" -> Includes(f.decoded, BRAND_WORD)
    [] OTHER -> FALSE

generateRecommendations(analysis) ==
  LET band ==
        IF RLt(R(8, 10), analysis.riskScore)
          THEN <<"HIGH RISK: Likely homograph attack - block or quarantine">>
        ELSE IF RLt(R(6, 10), analysis.riskScore)
          THEN <<"MEDIUM RISK: Suspicious domain - flag for review">>
        ELSE IF RLt(R(3, 10), analysis.riskScore)
          THEN <<"LOW RISK: Monitor domain activity">>
        ELSE <<"SAFE: Domain appears legitimate">>
      idn == IF analysis.isIDN
               THEN <<"Consider displaying punycode representation to users">>
               ELSE <<>>
      brand == IF \E k \in 1..Len(analysis.riskFactors) :
                     FactorIncludesBrand(analysis.riskFactors[k])
                 THEN <<"Verify domain authenticity through official channels">>
                 ELSE <<>>
  IN band \o idn \o brand

analyzeComprehensive(options, domain, context) ==
  LET none == [score |-> RZero, factors |-> <<>>]
      \* the analysis object once the five checks have run
      Recommended(analysis) ==
        [analysis EXCEPT !.recommendations = generateRecommendations(analysis)]
      Analysis(isIDN, riskScore, riskFactors) ==
        Recommended([ domain |-> domain, isIDN |-> isIDN,
                      riskScore |-> riskScore, riskFactors |-> riskFactors,
                      recommendations |-> <<>>,
                      confidence |-> RMin(riskScore, ROne) ])
      Checks(isIDN, basic, confusableAnalysis, brandAnalysis, scriptAnalysis,
             contextAnalysis, punycodeAnalysis) ==
        Analysis(isIDN,
          RAdd(RAdd(RAdd(RAdd(RAdd(basic.score, confusableAnalysis.score),
                              brandAnalysis.score), scriptAnalysis.score),
                    contextAnalysis.score), punycodeAnalysis.score),
          basic.factors \o confusableAnalysis.factors
            \o brandAnalysis.factors \o scriptAnalysis.factors
            \o contextAnalysis.factors \o punycodeAnalysis.factors)
      Run(isIDN) ==
        IF options.enableWhitelist /\ isWhitelisted(domain)
          THEN [ domain |-> domain, isIDN |-> isIDN, riskScore |-> RZero,
                 riskFactors |-> <<>>,
                 recommendations |-> <<"Domain is whitelisted as legitimate">>,
                 confidence |-> ROne ]
          ELSE Checks(isIDN,
                 IF isIDN
                   THEN [ score |-> R(3, 10),
                          factors |-> << [kind |-> "Contains non-ASCII characters"] >> ]
                   ELSE none,
                 analyzeConfusableCharacters(domain),
                 IF options.enableBrandProtection
                   THEN analyzeBrandSimilarity(options, domain) ELSE none,
                 analyzeScriptMixing(domain),
                 IF options.enableContextAnalysis
                   THEN analyzeContext(domain, context) ELSE none,
                 IF Includes(domain, XN) THEN analyzePunycode(domain) ELSE none)
  IN Run(isIDNDomain(domain))

---------------------------------------------------------------------------
(* EnhancedIDNDetector: the cache                                          *)

\* JSON.stringify(context): the fields that are not undefined, in the order
\* the object literal lists them.
JSONStringify(context) ==
  LET keep(k) == IF context[k] = JsUndefined THEN <<>> ELSE << <<k, context[k]>> >>
  IN keep("emailContent") \o keep("displayText") \o keep("senderReputation")
     \o keep("emailHeaders")

\* Two contexts whose JSON texts, {"emailContent":"urgent 35198"} and
\* {"emailContent":"hello 57077"}, have md5 digests that begin with the same
\* eight hexadecimal digits, 9a84a5de; the first matches the pattern urgent,
\* the second matches no pattern.
UrgentNote ==
  Context(Content("urgent 35198", {1}), JsUndefined, JsUndefined, JsUndefined)
HelloNote ==
  Context(Content("hello 57077", {}), JsUndefined, JsUndefined, JsUndefined)

\* (variant: a digest that differs for every two texts)
Md5Whole(text) == <<"md5 of", text>>

\* createHash("md5").update(text).digest("hex").slice(0, 8): 32 bits of the
\* digest.  The digits are written out for the two texts above; those of
\* the other texts of the model are taken to differ from them and from each
\* other.
Md5Prefix(text) ==
  IF text \in {JSONStringify(UrgentNote), JSONStringify(HelloNote)}
    THEN <<"9a84a5de">>
    ELSE <<"md5 of", text>>

\* (variant: the key made of the domain alone)
getCacheKeyOfDomain(domain, context) == <<domain, <<>>>>

getCacheKey(domain, context) == <<domain, Md5Prefix(JSONStringify(context))>>

\* (variant: the cache never read, every call analysed and stored)
detectHomographAttackAfresh(options, cache, domain, context) ==
  LET Store(cacheKey, result) ==
        [ result |-> result,
          cache |-> (cacheKey :> result) @@ cache,
          analysed |-> TRUE ]
      Lookup(cacheKey) ==
        Store(cacheKey, analyzeComprehensive(options, domain, context))
  IN Lookup(getCacheKey(domain, context))

\* detectHomographAttack on an analyzer with options and cache (a function
\* from keys to reports): the report returned and the cache afterwards.
detectHomographAttack(options, cache, domain, context) ==
  LET Store(cacheKey, result) ==
        [ result |-> result,
          cache |-> (cacheKey :> result) @@ cache,
          analysed |-> TRUE ]
      Lookup(cacheKey) ==
        IF cacheKey \in DOMAIN cache
          THEN [result |-> cache[cacheKey], cache |-> cache, analysed |-> FALSE]
          ELSE Store(cacheKey, analyzeComprehensive(options, domain, context))
  IN Lookup(getCacheKey(domain, context))

---------------------------------------------------------------------------
(* SpecIDN: one analyzer, called with domains and contexts                 *)

VARIABLES
  analyzer,   \* the EnhancedIDNDetector: [options, cache]
  idnLast,    \* the last call of detectHomographAttack and what it returned
  idnCalls    \* number of calls made

idnVars == <<analyzer, idnLast, idnCalls>>

\* number of calls of detectHomographAttack on one analyzer
MaxCalls == 2

\* The domains the analyzer is called with.
IDNDomains ==
  { <<97, 112, 112, 108, 101, 46, 99, 111, 109>>,           \* apple.com
    <<1072, 112, 112, 108, 101, 46, 99, 111, 109>>,         \* U+0430 pple.com
    <<1072, 1088, 1088, 1231, 1077, 46, 99, 111, 109>>,     \* all-Cyrillic "apple".com
    <<112, 97, 121, 112, 97, 49, 46, 99, 111, 109>>,        \* paypa1.com
    <<101, 120, 97, 109, 112, 108, 101, 46, 99, 111, 109>>, \* example.com
    <<120, 110, 45, 45, 112, 112, 108, 101, 45, 52, 51, 100, 46, 99, 111,
      109>>,                                                \* xn--pple-43d.com
    <<120, 110, 45, 45, 56, 48, 97, 107, 54, 97, 97, 57, 50, 101, 46, 99,
      111, 109>>,                                           \* xn--80ak6aa92e.com
    <<120, 110, 45, 45, 102, 105, 113, 115, 56, 115>>,      \* xn--fiqs8s
    <<88, 78, 45, 45, 70, 73, 81, 83, 56, 83>>,             \* XN--FIQS8S
    <<120, 110, 45, 45, 1072, 46, 99, 111, 109>> }          \* xn--U+0430.com

\* "http://other.example/", a display text that is no domain of IDNDomains
OtherText ==
  <<104, 116, 116, 112, 58, 47, 47, 111, 116, 104, 101, 114, 46, 101, 120,
    97, 109, 112, 108, 101, 47>>

\* a domain with U+212F written for every "e"
ScriptE(domain) ==
  [i \in 1..Len(domain) |-> IF domain[i] = 101 THEN 8495 ELSE domain[i]]

\* an empty headers object
NoHeaders == [t |-> "object", v |-> <<>>]

\* The contexts the analyzer is called with: nothing at all, what the two
\* detectors of SpamScanner pass, and contexts that make each of the checks
\* of analyzeContext fire or not, one with the display text being the domain
\* in look-alike letters, and the two contexts with the same digest prefix.
IDNContexts(domain) ==
  { Context(JsUndefined, JsUndefined, JsUndefined, JsUndefined),
    Context(Content("plain", {}), JsNull, JsNum(R(5, 10)), JsUndefined),
    Context(Content("plain", {}), JsNull, JsNum(R(5, 10)), NoHeaders),
    Context(Content("urgent", {1, 4}), JsStr(OtherText), JsNum(R(5, 10)),
            NoHeaders),
    Context(EmptyContent, JsStr(domain), JsNum(RZero), JsUndefined),
    Context(Content("all", SUSPICIOUS_PATTERNS), JsStr(OtherText),
            JsNum(R(2, 10)), JsUndefined),
    Context(Content("plain", {}), JsStr(ScriptE(domain)), JsNum(R(5, 10)),
            JsUndefined),
    UrgentNote, HelloNote }

\* The analyzers of the model: built without options, and built as
\* SpamScanner builds it.
IDNAnalyzers ==
  { NewEnhancedIDNDetector(<<>>) }
  \cup { NewEnhancedIDNDetector(ScannerIDNOptions(b)) : b \in BOOLEAN }

NoCall == [made |-> FALSE]

IdleIDN ==
  /\ analyzer = NewEnhancedIDNDetector(<<>>)
  /\ idnLast = NoCall
  /\ idnCalls = 0

InitIDNVars ==
  /\ analyzer \in IDNAnalyzers
  /\ idnLast = NoCall
  /\ idnCalls = 0

\* analyzer.detectHomographAttack(domain, context)
DetectHomographAttack(domain, context) ==
  /\ idnCalls < MaxCalls
  /\ LET Done(r) ==
           /\ analyzer' = [analyzer EXCEPT !.cache = r.cache]
           /\ idnLast' = [ made |-> TRUE, domain |-> domain,
                           context |-> context, result |-> r.result,
                           analysed |-> r.analysed ]
     IN Done(detectHomographAttack(analyzer.options, analyzer.cache,
                                   domain, context))
  /\ idnCalls' = idnCalls + 1

NextIDNVars ==
  \E domain \in IDNDomains : \E context \in IDNContexts(domain) :
    DetectHomographAttack(domain, context)

---------------------------------------------------------------------------
(* Properties of the analyzer (SpecIDN)                                    *)

\* the scores of the report the last call returned
LastRiskScore == idnLast.result.riskScore
LastConfidence == idnLast.result.confidence

InUnitInterval(x) == RLe(RZero, x) /\ RLe(x, ROne)

\* C9: the report returned by detectHomographAttack has 0 <= riskScore <= 1
\* and 0 <= confidence <= 1, for every domain and context.
C9_ScoresInUnitInterval ==
  idnLast.made => InUnitInterval(LastRiskScore) /\ InUnitInterval(LastConfidence)

\* the domain of the last call is in the legitimate-IDN whitelist (domain
\* names compare without regard to case)
LastDomainWhitelisted ==
  idnLast.made /\ ToLowerCase(idnLast.domain) \in LEGITIMATE_IDN_DOMAINS

\* C10: for a domain in the legitimate-IDN whitelist and any context,
\* detectHomographAttack returns riskScore 0 and confidence 1 and the report
\* carries the trace of no check: no risk factor, and the whitelist sentence
\* as its only recommendation.
C10_WhitelistShortCircuit ==
  LastDomainWhitelisted =>
    /\ LastRiskScore = RZero
    /\ LastConfidence = ROne
    /\ idnLast.result.riskFactors = <<>>
    /\ idnLast.result.recommendations = <<"Domain is whitelisted as legitimate">>

\* a whitelisted domain (here in capitals) was analysed in a context whose
\* display text, sender reputation and content would each add to the score
C10_Witness ==
  /\ LastDomainWhitelisted
  /\ idnLast.domain \notin LEGITIMATE_IDN_DOMAINS
  /\ analyzeContext(idnLast.domain, idnLast.context).score = R(12, 10)
  /\ LastRiskScore = RZero

\* "xn--80ak6aa92e.com", the punycode form of the all-Cyrillic look-alike of
\* "apple.com"
PunycodeApple ==
  <<120, 110, 45, 45, 56, 48, 97, 107, 54, 97, 97, 57, 50, 101, 46, 99, 111,
    109>>

\* the risk factors of the report the last call returned, as a set
LastRiskFactors ==
  {idnLast.result.riskFactors[k] : k \in 1..Len(idnLast.result.riskFactors)}

\* C11: for the punycode domain "xn--80ak6aa92e.com", whose Unicode form is a
\* confusable-character look-alike of the brand "apple", the report has
\* riskScore > 0.6 and its risk factors contain a confusable-character entry
\* and a brand-similarity entry naming "apple".
C11_PunycodeLookalikeFlagged ==
  idnLast.made /\ idnLast.domain = PunycodeApple =>
    /\ RLt(R(6, 10), LastRiskScore)
    /\ \E f \in LastRiskFactors :
         f.kind \in {"Confusable character", "characters are confusable"}
    /\ \E f \in LastRiskFactors :
         f.kind = "High similarity to" /\ f.brand = <<97, 112, 112, 108, 101>>

\* confusable characters to append to a domain: Cyrillic a (U+0430) and the
\* script small e (U+212F)
AppendedConfusables == {1072, 8495}

\* the riskScore the analyzer of the last call computes for a domain under
\* the context of the last call
RiskScoreOf(domain) ==
  analyzeComprehensive(analyzer.options, domain, idnLast.context).riskScore

\* C12: for the domain and the context of any call, the riskScore the
\* analyzer computes for the domain with one more confusable character at
\* its end is not lower than the riskScore of the domain itself.
C12_AppendedConfusableNeverLowers ==
  idnLast.made =>
    \A c \in AppendedConfusables :
      RLe(LastRiskScore, RiskScoreOf(Append(idnLast.domain, c)))

\* the characters of the confusable table that map to one ASCII character
ConfusablesFor(ch) == {k \in CONFUSABLE_KEYS : CONFUSABLE_CHARS(k) = <<ch>>}

\* how many characters of a domain a homograph twin replaces
MaxReplaced == 1

\* the homograph twins of a domain: MaxReplaced of its characters replaced
\* by a character of the table that maps to it
Twins(domain) ==
  { [domain EXCEPT ![i] = k] :
      <<i, k>> \in UNION { {i} \X ConfusablesFor(domain[i]) :
                            i \in 1..Len(domain) } }

\* C13: for a pure-ASCII domain and each of its homograph twins, analysed
\* under the same context, the riskScore of the ASCII domain is strictly
\* lower than the riskScore of the twin.
C13_TwinScoresHigher ==
  idnLast.made /\ IsAscii(idnLast.domain) =>
    \A twin \in Twins(idnLast.domain) :
      RLt(LastRiskScore, RiskScoreOf(twin))

\* the cache key of the last call
LastCacheKey == getCacheKey(idnLast.domain, idnLast.context)

\* C14: on one analyzer, a call of detectHomographAttack that repeats the
\* domain and the context of an earlier call returns the report of that call
\* without analysing again; the report of every call is in the cache under
\* its key when the call returns, and every entry of the cache stays in it
\* with the report it had, so the set of cached keys only grows.
C14_CachedReportReturned ==
  [][ /\ \A key \in DOMAIN analyzer.cache :
           /\ key \in DOMAIN analyzer'.cache
           /\ analyzer'.cache[key] = analyzer.cache[key]
      /\ idnLast'.made =>
           /\ LastCacheKey' \in DOMAIN analyzer'.cache
           /\ analyzer'.cache[LastCacheKey'] = idnLast'.result
           /\ (LastCacheKey' \in DOMAIN analyzer.cache) = ~idnLast'.analysed
      /\ ( /\ idnLast.made /\ idnLast'.made
           /\ idnLast'.domain = idnLast.domain
           /\ idnLast'.context = idnLast.context )
         => idnLast'.result = idnLast.result /\ ~idnLast'.analysed
    ]_idnVars

\* a second call repeated the domain and context of the first, for a domain
\* with a positive score, and was answered from the one entry of the cache
C14_Witness ==
  /\ idnCalls = 2
  /\ idnLast.made /\ ~idnLast.analysed
  /\ Cardinality(DOMAIN analyzer.cache) = 1
  /\ analyzer.cache[LastCacheKey] = idnLast.result

\* the sender reputation of the context of the last call is a number below
\* 0.5
LastReputationLow ==
  /\ idnLast.context.senderReputation.t = "number"
  /\ RLt(idnLast.context.senderReputation.v, R(5, 10))

\* the context of the last call with the sender reputation left out
LastContextWithoutReputation ==
  [idnLast.context EXCEPT !.senderReputation = JsUndefined]

\* C25: the context analysis adds 0.2 to the score and records the
\* low-reputation factor exactly when the sender reputation is a number
\* below 0.5, the value 0 included; an absent reputation or one of 0.5 or
\* more adds nothing.
C25_LowReputationCounts ==
  idnLast.made =>
    /\ analyzeContext(idnLast.domain, idnLast.context).score
         = RAdd(analyzeContext(idnLast.domain,
                               LastContextWithoutReputation).score,
                IF LastReputationLow THEN R(2, 10) ELSE RZero)
    /\ ~LastDomainWhitelisted =>
         (LastReputationLow
            <=> [kind |-> "Low sender reputation"] \in LastRiskFactors)

\* the recommendations of the report the last call returned, as a set
LastRecommendations ==
  { idnLast.result.recommendations[k] :
      k \in 1..Len(idnLast.result.recommendations) }

\* C26: the recommendations of a report for a domain outside the whitelist
\* contain the punycode-display sentence whenever the domain is
\* internationalized, and the verify-authenticity sentence whenever a
\* brand-similarity risk factor is among its risk factors.
C26_ExtraRecommendations ==
  (idnLast.made /\ ~LastDomainWhitelisted) =>
    /\ idnLast.result.isIDN =>
         "Consider displaying punycode representation to users"
           \in LastRecommendations
    /\ (\E f \in LastRiskFactors : f.kind = "High similarity to") =>
         "Verify domain authenticity through official channels"
           \in LastRecommendations

\* the domain of the last call carries the punycode marker and the URL
\* parser, which does the decoding, refuses it
LastDecodingFails ==
  Includes(idnLast.domain, XN) /\ URLHostname(idnLast.domain).threw

\* C27: for a domain with the punycode marker outside the whitelist, when
\* decoding fails the punycode analysis scores 0.2 and the report has the
\* invalid-punycode risk factor; when decoding succeeds the punycode analysis
\* scores 0.8 times the score of the confusable analysis of the decoded
\* form and the report has the punycode-decoded risk factor.
C27_DecodeFailureRecorded ==
  (idnLast.made /\ ~LastDomainWhitelisted /\ Includes(idnLast.domain, XN)) =>
    IF LastDecodingFails
      THEN /\ analyzePunycode(idnLast.domain).score = R(2, 10)
           /\ [kind |-> "Invalid punycode encoding"] \in LastRiskFactors
      ELSE /\ analyzePunycode(idnLast.domain).score
                = RMul(analyzeConfusableCharacters(
                         URLHostname(idnLast.domain).hostname).score,
                       R(8, 10))
           /\ \E f \in LastRiskFactors : f.kind = "Punycode decoded"

---------------------------------------------------------------------------
(* SpamScanner.scan: the verdict and the message (mod.ts)                  *)

\* (variant: every pattern counted, whatever the mode)
allPatterns(config, patterns) == patterns

\* patterns.filter((p) => p.type !== "file_path") in benign mode
effectivePatterns(config, patterns) ==
  IF config.filePathDetection = "benign"
    THEN SelectSeq(patterns, LAMBDA p : p.type # "file_path")
    ELSE patterns

\* (variant: the virus findings left out of the disjunction)
isSpamWithoutViruses(config, r) ==
  \/ r.classification.category = "spam"
  \/ Len(r.phishing) > 0
  \/ Len(r.executables) > 0
  \/ Len(r.macros) > 0
  \/ Len(r.arbitrary) > 0
  \/ Len(effectivePatterns(config, r.patterns)) > 0
  \/ r.idnHomographAttack.detected

\* const isSpam = ... over the eight results r of the detectors
isSpam(config, r) ==
  \/ r.classification.category = "spam"
  \/ Len(r.phishing) > 0
  \/ Len(r.executables) > 0
  \/ Len(r.macros) > 0
  \/ Len(r.arbitrary) > 0
  \/ Len(r.viruses) > 0
  \/ Len(effectivePatterns(config, r.patterns)) > 0
  \/ r.idnHomographAttack.detected

\* (variant: a phrase pushed for every pattern finding, excluded or not)
reasonsFromAllPatterns(config, r) ==
  (IF r.classification.category = "spam" THEN <<"spam classification">> ELSE <<>>)
  \o (IF Len(r.phishing) > 0 THEN <<"phishing detected">> ELSE <<>>)
  \o (IF Len(r.executables) > 0 THEN <<"executable content">> ELSE <<>>)
  \o (IF Len(r.macros) > 0 THEN <<"macro detected">> ELSE <<>>)
  \o (IF Len(r.arbitrary) > 0 THEN <<"arbitrary patterns">> ELSE <<>>)
  \o (IF Len(r.viruses) > 0 THEN <<"virus detected">> ELSE <<>>)
  \o (IF Len(r.patterns) > 0 THEN <<"suspicious patterns">> ELSE <<>>)
  \o (IF r.idnHomographAttack.detected THEN <<"IDN homograph attack">> ELSE <<>>)

\* the reasons pushed when isSpam
reasons(config, r) ==
  (IF r.classification.category = "spam" THEN <<"spam classification">> ELSE <<>>)
  \o (IF Len(r.phishing) > 0 THEN <<"phishing detected">> ELSE <<>>)
  \o (IF Len(r.executables) > 0 THEN <<"executable content">> ELSE <<>>)
  \o (IF Len(r.macros) > 0 THEN <<"macro detected">> ELSE <<>>)
  \o (IF Len(r.arbitrary) > 0 THEN <<"arbitrary patterns">> ELSE <<>>)
  \o (IF Len(r.viruses) > 0 THEN <<"virus detected">> ELSE <<>>)
  \o (IF Len(effectivePatterns(config, r.patterns)) > 0
        THEN <<"suspicious patterns">> ELSE <<>>)
  \o (IF r.idnHomographAttack.detected THEN <<"IDN homograph attack">> ELSE <<>>)

\* arrayJoinConjunction(items): the pieces of the joined string, the items
\* separated by ", " and, before the last one, by " and "
arrayJoinConjunction(items) ==
  [k \in 1..(IF items = <<>> THEN 0 ELSE 2 * Len(items) - 1) |->
     IF k % 2 = 1 THEN items[(k + 1) \div 2]
     ELSE IF k = 2 * Len(items) - 2 THEN " and " ELSE ", "]

\* the message, as the pieces of the string
scanMessage(config, r) ==
  IF isSpam(config, r)
    THEN <<"Spam (">> \o arrayJoinConjunction(reasons(config, r)) \o <<")">>
    ELSE <<"Ham">>

---------------------------------------------------------------------------
(* SpecVerdict: the verdict over every combination of detector results     *)

VARIABLES
  verdictIn,   \* the configuration and the eight results handed to the verdict
  verdictOut   \* isSpam and message computed from them

verdictVars == <<verdictIn, verdictOut>>

\* one finding of each kind (what the verdict reads is only how many there are
\* and, for patterns, their type)
AFinding(type) == [type |-> type]

ListChoices(type) == { <<>>, <<AFinding(type)>> }

PatternChoices ==
  { <<>>, <<AFinding("file_path")>>, <<AFinding("pattern")>>,
    <<AFinding("pattern"), AFinding("file_path")>>,
    <<AFinding("file_path"), AFinding("file_path")>> }

FilePathModes == {"off", "benign", "strict"}

VerdictInputs ==
  [ config : [filePathDetection : FilePathModes],
    results : [ classification : [category : {"spam", "ham"}, probability : {R(1, 2)}],
                phishing : ListChoices("phishing"),
                executables : ListChoices("executable"),
                macros : ListChoices("macro"),
                arbitrary : ListChoices("arbitrary"),
                viruses : ListChoices("virus"),
                patterns : PatternChoices,
                idnHomographAttack : [detected : BOOLEAN] ] ]

NoVerdict == [made |-> FALSE]

IdleVerdict ==
  /\ verdictIn = [config |-> [filePathDetection |-> "strict"]]
  /\ verdictOut = NoVerdict

InitVerdictVars ==
  /\ verdictIn \in VerdictInputs
  /\ verdictOut = NoVerdict

\* lines 1300-1354 of scan, on the results of Promise.all
Decide ==
  /\ ~verdictOut.made
  /\ verdictOut' = [ made |-> TRUE,
                     isSpam |-> isSpam(verdictIn.config, verdictIn.results),
                     message |-> scanMessage(verdictIn.config, verdictIn.results) ]
  /\ UNCHANGED verdictIn

NextVerdictVars == Decide

---------------------------------------------------------------------------
(* Properties of the verdict (SpecVerdict)                                 *)

\* what the claims call the finding categories, in the order of the message
Categories ==
  << "classification", "phishing", "executables", "macros", "arbitrary",
     "viruses", "patterns", "idnHomographAttack" >>

\* the reason phrase of each category
PhraseOf(category) ==
  CASE category = "classification" -> "spam classification"
    [] category = "phishing" -> "phishing detected"
    [] category = "executables" -> "executable content"
    [] category = "macros" -> "macro detected"
    [] category = "arbitrary" -> "arbitrary patterns"
    [] category = "viruses" -> "virus detected"
    [] category = "patterns" -> "suspicious patterns"
    [] category = "idnHomographAttack" -> "IDN homograph attack"

\* the pattern findings that remain after the configured exclusion
RemainingPatterns(config, r) ==
  { k \in 1..Len(r.patterns) :
      ~(config.filePathDetection = "benign" /\ r.patterns[k].type = "file_path") }

\* a category contributes to the verdict
Contributes(config, r, category) ==
  CASE category = "classification" -> r.classification.category = "spam"
    [] category = "patterns" -> RemainingPatterns(config, r) # {}
    [] category = "idnHomographAttack" -> r.idnHomographAttack.detected
    [] OTHER -> r[category] # <<>>

RECURSIVE ContributingPhrases(_, _, _)
ContributingPhrases(config, r, k) ==
  IF k > Len(Categories) THEN <<>>
  ELSE (IF Contributes(config, r, Categories[k])
          THEN <<PhraseOf(Categories[k])>> ELSE <<>>)
       \o ContributingPhrases(config, r, k + 1)

\* the reason phrases of a message: its pieces, without the opening, the
\* closing and the separators
PhrasesIn(message) ==
  SelectSeq(message, LAMBDA piece : piece \notin {"Spam (", ")", ", ", " and "})

\* C7: the message is "Ham" exactly when isSpam is false; when isSpam is true
\* it holds exactly one reason phrase per category that contributed to the
\* verdict, in the fixed category order, none repeated and none for a
\* category that did not contribute.
C7_MessageRule ==
  verdictOut.made =>
    /\ (verdictOut.message = <<"Ham">>) <=> ~verdictOut.isSpam
    /\ verdictOut.isSpam =>
         /\ Head(verdictOut.message) = "Spam ("
         /\ PhrasesIn(verdictOut.message)
              = ContributingPhrases(verdictIn.config, verdictIn.results, 1)

\* a spam message with three reasons, while file_path findings that the
\* benign mode excludes are present and get no phrase
C7_Witness ==
  /\ verdictOut.made /\ verdictOut.isSpam
  /\ verdictIn.config.filePathDetection = "benign"
  /\ verdictIn.results.patterns = <<AFinding("file_path")>>
  /\ verdictOut.message
       = << "Spam (", "spam classification", ", ", "macro detected", " and ",
            "IDN homograph attack", ")" >>

---------------------------------------------------------------------------
(* SpamScanner: configuration, messages and URLs (mod.ts)                  *)

\* A value a called function ends with: returned or thrown.
Returned(v) == [threw |-> FALSE, value |-> v]
Thrown == [threw |-> TRUE]

\* config.allowlistedPaths: an array of regular expressions (by name), or a
\* value that is no array - a single RegExp, which for...of cannot iterate.
RegExpArray(names) == [t |-> "array", v |-> names]
SingleRegExp(name) == [t |-> "regexp", v |-> name]

\* The configuration the constructor builds: the defaults, overridden by the
\* options given.  Of the options, the model keeps those scan reads.
DefaultConfig ==
  [ filePathDetection |-> "strict",
    allowlistedPaths |-> RegExpArray(<<"W3C_DTD_REGEX">>),
    strictIDNDetection |-> JsUndefined,
    clamscan |-> TRUE,
    enableMacroDetection |-> TRUE ]

NewSpamScannerConfig(options) ==
  [k \in DOMAIN DefaultConfig |->
     IF k \in DOMAIN options THEN options[k] ELSE DefaultConfig[k]]

\* A URL found in a text: its host as written (code points) and whether it
\* carries a #fragment.
Url(host, hash) == [host |-> host, hash |-> hash]

\* the string of a URL: "http://" host, then "/#x" for the fragment
UrlText(u) ==
  <<104, 116, 116, 112, 58, 47, 47>> \o u.host
  \o (IF u.hash THEN <<47, 35, 120>> ELSE <<>>)

\* normalizeUrl(url, {stripHash}): the host in its ASCII form; throws for a
\* host the URL parser refuses
normalizeUrl(u, stripHash) ==
  LET Normalized(parsed) ==
        IF parsed.threw THEN Thrown
        ELSE Returned(Url(parsed.hostname, IF stripHash THEN FALSE ELSE u.hash))
  IN Normalized(URLHostname(u.host))

\* [...new Set(urls)]
RECURSIVE Dedupe(_, _)
Dedupe(seq, seen) ==
  IF seq = <<>> THEN seen
  ELSE Dedupe(Tail(seq),
              IF SeqHas(seen, Head(seq)) THEN seen ELSE Append(seen, Head(seq)))

\* getUrls on a text whose URL matches are `matches`: each normalized
\* (stripHash: false) or, when that fails, kept as it is; duplicates removed
getUrls(matches) ==
  LET OrKept(url, n) == IF n.threw THEN url ELSE n.value
  IN Dedupe([k \in 1..Len(matches) |->
               OrKept(matches[k], normalizeUrl(matches[k], FALSE))],
            <<>>)

\* optimizeUrlParsing: normalizeUrl with stripHash: true; the url itself when
\* that fails (the 5 s timer never wins against the synchronous normalizeUrl)
optimizeUrlParsing(u) ==
  LET OrKept(n) == IF n.threw THEN u ELSE n.value
  IN OrKept(normalizeUrl(u, TRUE))

\* A part of a mail (mail.text, mail.html) by what the detectors read of it:
\* whether it is empty, the URLs URL_PATTERN matches in it and the
\* SUSPICIOUS_PATTERNS that match it.
Part(urls, hits) == [empty |-> FALSE, urls |-> urls, hits |-> hits]
NoPart == [empty |-> TRUE, urls |-> <<>>, hits |-> {}]

\* An attachment: its filename ("" when it has none), what fileExtension
\* gives for it, and whether it has a Buffer as content.
Attachment(filename, extension, content) ==
  [filename |-> filename, extension |-> extension, content |-> content]

\* A file path FILE_PATH_PATTERNS match and isValidFilePath accepts: whether
\* a sensitive directory, a dangerous extension or a repetition marks it, and
\* the regular expressions (by name) that match it.
FilePath(path, marked, matchedBy) ==
  [path |-> path, marked |-> marked, matchedBy |-> matchedBy]

\* The mail simpleParser returns, by what the detectors read of it.
Mail(id, text, html, macroPatterns, gtube, dateMatches, filePaths, attachments) ==
  [ id |-> id, text |-> text, html |-> html,
    macroPatterns |-> macroPatterns,  \* groups of macro patterns that match
    gtube |-> gtube,                  \* the GTUBE string is in the content
    dateMatches |-> dateMatches,      \* number of matches of each DATE_PATTERNS
    filePaths |-> filePaths,          \* valid file paths, trimmed, distinct
    attachments |-> attachments ]

\* the mail of the empty source ""
EmptyMail == Mail("empty", NoPart, NoPart, {}, FALSE, <<0, 0, 0, 0>>, <<>>, <<>>)

---------------------------------------------------------------------------
(* SpamScanner: the detectors that finish without waiting (mod.ts)         *)

\* getClassification: category is what categorize returns, "ham" when that
\* is empty or categorize throws
getClassification(categorize) ==
  [ category |-> IF categorize \in {"", "throws"} THEN "ham" ELSE categorize,
    probability |-> R(1, 2) ]

\* executables.json is read at load time and is not among the sources; the
\* model takes these extensions to be in it.
EXECUTABLES == {"exe", "dll", "bat", "cmd", "scr", "com"}

\* getExecutableResults; fileTypes[k] is what fileTypeFromBuffer answers for
\* attachment k: an extension, "" (no type found) or "throws"
RECURSIVE getExecutableResultsFrom(_, _, _)
getExecutableResultsFrom(attachments, fileTypes, k) ==
  IF k > Len(attachments) THEN <<>>
  ELSE LET attachment == attachments[k]
           byName == IF attachment.filename # ""
                        /\ attachment.extension \in EXECUTABLES
                       THEN << [ type |-> "executable",
                                 filename |-> attachment.filename,
                                 extension |-> attachment.extension,
                                 description |-> "Executable file attachment" ] >>
                       ELSE <<>>
           byContent == IF attachment.content /\ fileTypes[k] \in EXECUTABLES
                          THEN << [ type |-> "executable",
                                    filename |-> IF attachment.filename # ""
                                                   THEN attachment.filename
                                                   ELSE "unknown",
                                    detectedType |-> fileTypes[k],
                                    description |-> "Executable content detected" ] >>
                          ELSE <<>>
       IN byName \o byContent \o getExecutableResultsFrom(attachments, fileTypes, k + 1)

getExecutableResults(mail, fileTypes) ==
  getExecutableResultsFrom(mail.attachments, fileTypes, 1)

MacroGroups == <<"vba", "powershell", "javascript", "batch">>

MacroDescription(subtype) ==
  CASE subtype = "vba" -> "VBA macro detected"
    [] subtype = "powershell" -> "PowerShell script detected"
    [] subtype = "javascript" -> "JavaScript macro detected"
    [] subtype = "batch" -> "Batch script detected"

macroExtensions == {"vbs", "vba", "ps1", "bat", "cmd", "scr", "pif"}

\* getMacroResults: one finding per group of patterns that matches the
\* content, then one per attachment with a macro extension
getMacroResults(mail) ==
  LET groups == SelectSeq(MacroGroups, LAMBDA g : g \in mail.macroPatterns)
      files == SelectSeq(mail.attachments,
                 LAMBDA a : a.filename # "" /\ a.extension \in macroExtensions)
  IN [k \in 1..Len(groups) |->
        [ type |-> "macro", subtype |-> groups[k],
          description |-> MacroDescription(groups[k]) ]]
     \o [k \in 1..Len(files) |->
           [ type |-> "macro", subtype |-> "attachment",
             filename |-> files[k].filename,
             description |-> <<"Macro file attachment detected: ",
                               files[k].extension>> ]]

\* getArbitraryResults
getArbitraryResults(mail) ==
  IF mail.gtube
    THEN << [ type |-> "arbitrary",
              description |-> "GTUBE spam test pattern detected" ] >>
    ELSE <<>>

\* isAllowlisted: for...of over config.allowlistedPaths throws when that is
\* no array; re.test is inside the try
isAllowlisted(config, filePath) ==
  IF config.allowlistedPaths.t # "array" THEN Thrown
  ELSE Returned(\E k \in 1..Len(config.allowlistedPaths.v) :
                    config.allowlistedPaths.v[k] \in filePath.matchedBy)

\* isSuspiciousPath: the allowlist first
isSuspiciousPath(config, filePath) ==
  LET allowed == isAllowlisted(config, filePath) IN
  IF allowed.threw THEN Thrown
  ELSE Returned(~allowed.value /\ filePath.marked)

MAX_PATHS == 10

\* getFilePathResults: the loop over the first MAX_PATHS collected paths
RECURSIVE FilePathLoop(_, _, _)
FilePathLoop(config, collected, k) ==
  IF k > Len(collected) \/ k > MAX_PATHS THEN Returned(<<>>)
  ELSE LET item == collected[k]
           rest == FilePathLoop(config, collected, k + 1)
           allowed == isAllowlisted(config, item)
       IN IF config.filePathDetection = "benign"
            THEN IF rest.threw THEN Thrown
                 ELSE Returned(<< [ type |-> "file_path", path |-> item.path,
                                    description |-> "Benign file path detected" ] >>
                               \o rest.value)
          ELSE IF allowed.threw THEN Thrown
          ELSE IF rest.threw THEN Thrown
          ELSE IF ~allowed.value /\ item.suspicious
            THEN Returned(<< [ type |-> "file_path", path |-> item.path,
                               description |-> "Suspicious file path detected" ] >>
                          \o rest.value)
          ELSE rest

getFilePathResults(config, mail) ==
  IF config.filePathDetection = "off" THEN Returned(<<>>)
  ELSE LET checks == [k \in 1..Len(mail.filePaths) |->
                        isSuspiciousPath(config, mail.filePaths[k])]
       IN IF \E k \in 1..Len(checks) : checks[k].threw THEN Thrown
          ELSE FilePathLoop(config,
                 [k \in 1..Len(checks) |->
                    [ path |-> mail.filePaths[k].path,
                      matchedBy |-> mail.filePaths[k].matchedBy,
                      suspicious |-> checks[k].value ]],
                 1)

\* (variant: five matches of a date pattern are enough)
getPatternResultsFromFive(config, mail) ==
  LET many == SelectSeq(mail.dateMatches, LAMBDA count : count >= 5)
      dates == [k \in 1..Len(many) |->
                  [ type |-> "pattern", subtype |-> "date_spam",
                    count |-> many[k],
                    description |-> "Excessive date patterns detected" ]]
      filePathResults == getFilePathResults(config, mail)
  IN IF filePathResults.threw THEN Thrown
     ELSE Returned(dates \o filePathResults.value)

\* getPatternResults: a finding per DATE_PATTERNS with more than 5 matches,
\* then the file path findings; nothing catches what getFilePathResults throws
getPatternResults(config, mail) ==
  LET many == SelectSeq(mail.dateMatches, LAMBDA count : count > 5)
      dates == [k \in 1..Len(many) |->
                  [ type |-> "pattern", subtype |-> "date_spam",
                    count |-> many[k],
                    description |-> "Excessive date patterns detected" ]]
      filePathResults == getFilePathResults(config, mail)
  IN IF filePathResults.threw THEN Thrown
     ELSE Returned(dates \o filePathResults.value)

---------------------------------------------------------------------------
(* SpamScanner: the detectors that wait for a collaborator (mod.ts)        *)

\* mail.text || mail.html || "" as the emailContent of a context
TextOrHtml(mail) ==
  IF ~mail.text.empty THEN Content(<<mail.id, "text">>, mail.text.hits)
  ELSE IF ~mail.html.empty THEN Content(<<mail.id, "html">>, mail.html.hits)
  ELSE EmptyContent

\* textContent + " " + htmlContent as the emailContent of a context
\* (never empty; a pattern matches it when it matches one of the two parts)
AllContent(mail) ==
  Content(<<mail.id, "all">>, mail.text.hits \cup mail.html.hits)

\* url === normalizedUrl ? null : url
DisplayText(url, normalizedUrl) ==
  IF url = normalizedUrl THEN JsNull ELSE JsStr(UrlText(url))

\* the context getPhishingResults passes
PhishingContext(mail, url, normalizedUrl) ==
  Context(TextOrHtml(mail), DisplayText(url, normalizedUrl), JsNum(R(1, 2)),
          JsUndefined)

\* the context getIDNHomographResults passes (mail.headers is a Map, which
\* JSON.stringify writes as {})
HomographContext(mail, url, normalizedUrl) ==
  Context(AllContent(mail), DisplayText(url, normalizedUrl), JsNum(R(1, 2)),
          NoHeaders)

\* the links getPhishingResults and getIDNHomographResults go through
PhishingLinks(mail) == getUrls(mail.text.urls)
HomographLinks(mail) == getUrls(mail.text.urls \o mail.html.urls)

\* the URL_PATTERN matches of the text extractAllUrls puts together: mail.text,
\* mail.html, the header lines (which hold no URL in the messages here) and
\* the source when it is a string.  A message given as a string holds the
\* URLs of its parts once more; the path of a file holds none.
AllTextMatches(mail, source) ==
  mail.text.urls \o mail.html.urls
  \o (IF source.kind = "string" THEN mail.text.urls \o mail.html.urls ELSE <<>>)

\* (variant: the URLs of the mail and of the source collected one after the
\* other)
extractAllUrlsOfEach(mail, source) ==
  getUrls(mail.text.urls \o mail.html.urls)
  \o (IF source.kind = "string"
        THEN getUrls(mail.text.urls \o mail.html.urls) ELSE <<>>)

\* extractAllUrls(mail, originalSource)
extractAllUrls(mail, source) == getUrls(AllTextMatches(mail, source))

\* new URL(normalizedUrl).hostname
ParsedHostname(url) == URLHostname(optimizeUrlParsing(url).host)

\* What the race of the request with the 5 s timer in isCloudflareBlocked
\* settles with, per answer of the blocklist: the response (2xx, with the
\* Status of its body: 3 is NXDOMAIN, 0 is NOERROR), or a rejection - the
\* request fails, superagent rejects a response that is not 2xx whatever
\* its body says, or the timer fires first.
DnsRace(answer) ==
  CASE answer = "blocked" -> Returned([status |-> 200, body |-> [Status |-> 3]])
    [] answer = "clean" -> Returned([status |-> 200, body |-> [Status |-> 0]])
    [] OTHER -> Thrown

\* (variant: a lookup that fails counts as blocked)
isCloudflareBlockedFailClosed(answer) ==
  LET Caught(raced) ==
        IF raced.threw THEN Returned(TRUE)
        ELSE Returned(raced.value.body.Status = 3)
  IN Caught(DnsRace(answer))

\* isCloudflareBlocked(hostname), by the answer of the blocklist: what the
\* promise it returns settles with
isCloudflareBlocked(answer) ==
  LET Caught(raced) ==
        IF raced.threw THEN Returned(FALSE)
        ELSE Returned(raced.value.body.Status = 3)
  IN Caught(DnsRace(answer))

\* what getPhishingResults pushes when the blocklist answers "blocked"
BlockedFinding(url, isBlocked) ==
  IF isBlocked
    THEN << [ type |-> "phishing", url |-> optimizeUrlParsing(url),
              description |-> "Blocked by security filters" ] >>
    ELSE <<>>

\* what getPhishingResults pushes for the report of the analyzer
HomographFinding(url, idnAnalysis) ==
  LET Finding(normalizedUrl) ==
        IF RLt(R(6, 10), idnAnalysis.riskScore)
          THEN << [ type |-> "phishing", url |-> normalizedUrl,
                    description |-> <<"IDN homograph attack detected (risk: ",
                                      ToFixed1Percent(idnAnalysis.riskScore), "%)">>,
                    details |-> [ riskFactors |-> idnAnalysis.riskFactors,
                                  recommendations |-> idnAnalysis.recommendations,
                                  confidence |-> idnAnalysis.confidence ] ] >>
        ELSE IF RLt(R(3, 10), idnAnalysis.riskScore)
          THEN << [ type |-> "suspicious", url |-> normalizedUrl,
                    description |-> <<"Suspicious IDN domain (risk: ",
                                      ToFixed1Percent(idnAnalysis.riskScore), "%)">>,
                    details |-> [ riskFactors |-> idnAnalysis.riskFactors,
                                  recommendations |-> idnAnalysis.recommendations ] ] >>
        ELSE <<>>
  IN Finding(optimizeUrlParsing(url))

\* the entry getIDNHomographResults appends to result.domains
SuspiciousDomain(url, analysis) ==
  IF RLt(R(3, 10), analysis.riskScore)
    THEN << [ domain |-> ParsedHostname(url).hostname,
              originalUrl |-> url,
              normalizedUrl |-> optimizeUrlParsing(url),
              riskScore |-> analysis.riskScore,
              riskFactors |-> analysis.riskFactors,
              recommendations |-> analysis.recommendations,
              confidence |-> analysis.confidence ] >>
    ELSE <<>>

RECURSIVE MaxRiskScore(_)
MaxRiskScore(domains) ==
  IF domains = <<>> THEN RZero
  ELSE RMax(Head(domains).riskScore, MaxRiskScore(Tail(domains)))

RECURSIVE AllRiskFactors(_)
AllRiskFactors(domains) ==
  IF domains = <<>> THEN <<>>
  ELSE Head(domains).riskFactors \o AllRiskFactors(Tail(domains))

\* the result of getIDNHomographResults, from result.domains
HomographResult(domains) ==
  [ detected |-> domains # <<>>,
    domains |-> domains,
    riskScore |-> MaxRiskScore(domains),
    details |-> IF domains = <<>> THEN <<>>
                ELSE << <<"Found ", Len(domains), " suspicious domain(s)">>,
                        <<"Highest risk score: ",
                          ToFixed1Percent(MaxRiskScore(domains)), "%">> >>
                     \o Dedupe(AllRiskFactors(domains), <<>>) ]

\* the loop of getIDNHomographResults over the links from link k on, on the
\* analyzer `detector`: result.domains and the analyzer afterwards
RECURSIVE HomographLoop(_, _, _, _)
HomographLoop(mail, links, k, detector) ==
  IF k > Len(links) THEN [domains |-> <<>>, detector |-> detector]
  ELSE LET url == links[k]
           Rest(found, rest) ==
             [domains |-> found \o rest.domains, detector |-> rest.detector]
           Analysed(call) ==
             Rest(SuspiciousDomain(url, call.result),
                  HomographLoop(mail, links, k + 1,
                                [detector EXCEPT !.cache = call.cache]))
           Parsed(parsed) ==
             IF parsed.threw \/ parsed.hostname = <<>>
               THEN HomographLoop(mail, links, k + 1, detector)
               ELSE Analysed(detectHomographAttack(detector.options,
                               detector.cache, parsed.hostname,
                               HomographContext(mail, url, optimizeUrlParsing(url))))
       IN Parsed(ParsedHostname(url))

\* what getVirusResults pushes for an infected attachment
VirusFinding(attachment) ==
  << [ filename |-> IF attachment.filename # "" THEN attachment.filename
                    ELSE "unknown",
       virus |-> <<"Eicar-Test-Signature">>,
       type |-> "virus" ] >>

---------------------------------------------------------------------------
(* Spec: one SpamScanner and its scans                                     *)

VARIABLES
  config,       \* this.config
  classifier,   \* this.classifier: "null" or "loaded"
  clamscan,     \* this.clamscan: "null" or "ready"
  analyzers,    \* the EnhancedIDNDetector instances created so far
  idnDetector,  \* this.idnDetector: 0 (not set) or an index in analyzers
  metrics,      \* this.metrics
  scans,        \* number of calls of scan so far
  scan,         \* the current call of scan: its promise, input and answers
  tasks         \* the eight detector tasks of the current scan

scanVars ==
  <<config, classifier, clamscan, analyzers, idnDetector, metrics, scans,
    scan, tasks>>

\* number of calls of scan on one scanner (one after the other)
MaxScans == 2

\* the detector tasks, in the order of the array given to Promise.all
Detectors ==
  << "classification", "phishing", "executables", "macros", "arbitrary",
     "viruses", "patterns", "idnHomographAttack" >>

DetectorNames == {Detectors[k] : k \in 1..Len(Detectors)}

\* The promise of a detector task and, while it is pending, where it waits:
\* pc is the await, i the index of its loop, acc the findings pushed so far.
NotStarted == [st |-> "idle", value |-> <<>>, pc |-> "", i |-> 0, acc |-> <<>>]
Fulfilled(value) ==
  [st |-> "fulfilled", value |-> value, pc |-> "", i |-> 0, acc |-> <<>>]
Rejected == [st |-> "rejected", value |-> <<>>, pc |-> "", i |-> 0, acc |-> <<>>]
Pending(pc, i, acc) ==
  [st |-> "pending", value |-> <<>>, pc |-> pc, i |-> i, acc |-> acc]

NoScan == [pc |-> "none"]

RECURSIVE NextParsable(_, _)
\* the first link from k on that new URL accepts (Len + 1 when there is none)
NextParsable(links, k) ==
  IF k > Len(links) THEN k
  ELSE IF ParsedHostname(links[k]).threw THEN NextParsable(links, k + 1)
  ELSE k

\* getPhishingResults at the head of its loop, before link k: it asks the
\* blocklist about the next link new URL accepts, or returns
PhishingAt(mail, k, acc) ==
  LET At(links, n) ==
        IF n > Len(links) THEN Fulfilled(acc) ELSE Pending("dns", n, acc)
      From(links) == At(links, NextParsable(links, k))
  IN From(PhishingLinks(mail))

RECURSIVE NextWithContent(_, _)
NextWithContent(attachments, k) ==
  IF k > Len(attachments) THEN k
  ELSE IF attachments[k].content THEN k
  ELSE NextWithContent(attachments, k + 1)

\* getVirusResults at the head of its loop, before attachment k, with
\* this.clamscan set: it hands the next attachment with content to the
\* virus scanner, or returns
VirusAt(mail, k, acc) ==
  LET At(n) ==
        IF n > Len(mail.attachments) THEN Fulfilled(acc)
        ELSE Pending("scan", n, acc)
  IN At(NextWithContent(mail.attachments, k))

\* getPhishingResults after the blocklist answer for link t.i, with the
\* analyzer `detector` (index in `heap`; 0: none): the analysis of the link,
\* then the next link.  The task and the instances afterwards.
PhishingAnalyse(mail, t, acc, heap, detector) ==
  LET url == PhishingLinks(mail)[t.i]
      Analysed(call) ==
        [ task |-> PhishingAt(mail, t.i + 1,
                     acc \o HomographFinding(url, call.result)),
          analyzers |-> [heap EXCEPT ![detector].cache = call.cache] ]
      Parsed(hostname) ==
        IF detector = 0 \/ hostname = <<>>
          THEN [task |-> PhishingAt(mail, t.i + 1, acc), analyzers |-> heap]
          ELSE Analysed(detectHomographAttack(heap[detector].options,
                          heap[detector].cache, hostname,
                          PhishingContext(mail, url, optimizeUrlParsing(url))))
  IN Parsed(ParsedHostname(url).hostname)

\* getIDNHomographResults with the analyzer `detector` of `heap`
HomographRun(mail, heap, detector) ==
  LET Finished(loop) ==
        [ task |-> Fulfilled(HomographResult(loop.domains)),
          analyzers |-> [heap EXCEPT ![detector] = loop.detector] ]
  IN Finished(HomographLoop(mail, HomographLinks(mail), 1, heap[detector]))

\* the result getIDNHomographResults starts from and returns when there is
\* no analyzer
NoHomographResult == HomographResult(<<>>)

\* The messages that are scanned: first a text with five dates and nothing
\* else a detector looks for.
PlainMail ==
  Mail("plain", Part(<<>>, {}), NoPart, {}, FALSE, <<5, 0, 0, 0>>, <<>>, <<>>)

\* a link to apple.com with a fragment, in an urgent text
LinkMail ==
  Mail("link",
       Part(<<Url(<<97, 112, 112, 108, 101, 46, 99, 111, 109>>, TRUE)>>, {1, 4}),
       NoPart, {}, FALSE, <<0, 0, 0, 0>>, <<>>, <<>>)

\* a link to U+0430 pple.com in the text, followed by the same link in its
\* punycode form, and again in the HTML part, which also says "urgent",
\* links to example.com and has the first link once more with a fragment
TwinMail ==
  Mail("twin",
       Part(<< Url(<<1072, 112, 112, 108, 101, 46, 99, 111, 109>>, FALSE),
               Url(<<120, 110, 45, 45, 112, 112, 108, 101, 45, 52, 51, 100, 46,
                     99, 111, 109>>, FALSE) >>, {}),
       Part(<< Url(<<1072, 112, 112, 108, 101, 46, 99, 111, 109>>, FALSE),
               Url(<<101, 120, 97, 109, 112, 108, 101, 46, 99, 111, 109>>, FALSE),
               Url(<<1072, 112, 112, 108, 101, 46, 99, 111, 109>>, TRUE) >>,
            {1}),
       {}, FALSE, <<0, 0, 0, 0>>, <<>>, <<>>)

\* an executable attached
InvoiceMail ==
  Mail("invoice", Part(<<>>, {}), NoPart, {}, FALSE, <<0, 0, 0, 0>>, <<>>,
       <<Attachment("invoice.exe", "exe", TRUE)>>)

\* three file paths in the text: one in a sensitive directory, one with a
\* dangerous extension, one with neither
PathsMail ==
  Mail("paths", Part(<<>>, {}), NoPart, {}, FALSE, <<0, 0, 0, 0>>,
       << FilePath("/etc/passwd", TRUE, {}),
          FilePath("~/notes/setup.exe", TRUE, {"NOTES_REGEX"}),
          FilePath("~/notes/todo.txt", FALSE, {"NOTES_REGEX"}) >>,
       <<>>)

\* the GTUBE string, a PowerShell call, many dates and a script attached
\* (without content)
ScriptMail ==
  Mail("script", Part(<<>>, {}), NoPart, {"powershell"}, TRUE, <<6, 0, 0, 2>>,
       <<>>, <<Attachment("run.vbs", "vbs", FALSE)>>)

Mails == {PlainMail, LinkMail, TwinMail, InvoiceMail, PathsMail, ScriptMail}

\* two links in an urgent text, to U+0430 pple.com and to example.com
ChainMail ==
  Mail("chain",
       Part(<< Url(<<1072, 112, 112, 108, 101, 46, 99, 111, 109>>, FALSE),
               Url(<<101, 120, 97, 109, 112, 108, 101, 46, 99, 111, 109>>, FALSE) >>,
            {1, 4}),
       NoPart, {}, FALSE, <<0, 0, 0, 0>>, <<>>, <<>>)

\* What scan is called with: a string or a Buffer holding a message, the path
\* of a file holding one, the path of a directory, or a value that is none of
\* these (a number, undefined).  The scanner with the default configuration
\* scans all of them; the others scan the two messages with file paths and
\* dates.
Sources(options) ==
  IF options = NewSpamScannerConfig(<<>>)
    THEN [kind : {"string"}, mail : Mails]
         \cup [kind : {"buffer", "file"}, mail : {PlainMail}]
         \cup [kind : {"directory", "number"}, mail : {EmptyMail}]
    ELSE [kind : {"string"}, mail : {PathsMail, ScriptMail}]

\* The answers of the collaborators during one scan: what categorize returns
\* ("throws": it throws), what fileTypeFromBuffer answers per attachment, the
\* blocklist per link ("refused": a response that is not 2xx; "error": the
\* request fails; "never": no answer in 5 s), the import of the analyzer
\* module, the initialisation of the virus scanner and its answer per
\* attachment ("never": no answer at all).
AnswersFor(mail) ==
  [ categorize : IF mail = PlainMail THEN {"ham", "spam", "", "throws"}
                 ELSE {"ham"},
    fileTypes : { f \in [1..Len(mail.attachments) -> {"exe", "throws", "unasked"}] :
                    \A k \in DOMAIN f :
                      (f[k] = "unasked") <=> ~mail.attachments[k].content },
    dns : [1..Len(PhishingLinks(mail)) ->
             {"blocked", "clean", "refused", "error", "never"}],
    idnImport : {"ok", "fail"},
    clamInit : {"ok", "fail", "never"},
    clamScan : { f \in [1..Len(mail.attachments) ->
                           {"infected", "clean", "error", "never", "unasked"}] :
                   \A k \in DOMAIN f :
                     (f[k] = "unasked") <=> ~mail.attachments[k].content } ]

\* The scans of the message with two links, for the lookups of the
\* blocklist: every answer per link, the analyzer module loading or not, the
\* virus scanner starting.
LookupSources == [kind : {"string"}, mail : {ChainMail}]
LookupAnswers == { answers \in AnswersFor(ChainMail) : answers.clamInit = "ok" }

\* The scanners of the model: the default configuration, the two other modes
\* of filePathDetection, an allowlist of its own, allowlistedPaths given
\* as a single RegExp instead of an array, and macro detection switched off.
Configs ==
  { NewSpamScannerConfig(<<>>),
    NewSpamScannerConfig([filePathDetection |-> "benign"]),
    NewSpamScannerConfig([filePathDetection |-> "off"]),
    NewSpamScannerConfig([allowlistedPaths |-> RegExpArray(<<"NOTES_REGEX">>)]),
    NewSpamScannerConfig([allowlistedPaths |-> SingleRegExp("NOTES_REGEX")]),
    NewSpamScannerConfig([enableMacroDetection |-> FALSE]) }

IdleScan ==
  /\ config = NewSpamScannerConfig(<<>>)
  /\ classifier = "null"
  /\ clamscan = "null"
  /\ analyzers = <<>>
  /\ idnDetector = 0
  /\ metrics = [totalScans |-> 0]
  /\ scans = 0
  /\ scan = NoScan
  /\ tasks = [d \in DetectorNames |-> NotStarted]

\* new SpamScanner(options)
InitScanVars ==
  /\ config \in Configs
  /\ classifier = "null"
  /\ clamscan = "null"
  /\ analyzers = <<>>
  /\ idnDetector = 0
  /\ metrics = [totalScans |-> 0]
  /\ scans = 0
  /\ scan = NoScan
  /\ tasks = [d \in DetectorNames |-> NotStarted]

\* Promise.all has something to do: one of the tasks is rejected, or all are
\* fulfilled.  Its reaction, and the continuation of scan after it, are
\* microtasks: they run before any answer of a collaborator is handled.
SettleEnabled ==
  /\ scan.pc = "awaiting"
  /\ \/ \E d \in DetectorNames : tasks[d].st = "rejected"
     \/ \A d \in DetectorNames : tasks[d].st = "fulfilled"

\* a task of the scan waits at the await `pc`
Waits(d, pc) == tasks[d].st = "pending" /\ tasks[d].pc = pc

\* a collaborator of the current scan has something to deliver
AnswerPending ==
  \/ Waits("phishing", "dns") \/ Waits("phishing", "import")
  \/ Waits("idnHomographAttack", "import")
  \/ Waits("viruses", "init") /\ scan.answers.clamInit # "never"
  \/ Waits("viruses", "scan")

\* scan(source), up to and including the start of the eight detector tasks:
\* initializeClassifier, getTokensAndMailFromSource and the synchronous part
\* of each task, in the order of the array.  The scanner is used by one scan
\* at a time: the previous one has settled and none of its tasks has an
\* answer to come.
Scan(source, answers) ==
  /\ scans < MaxScans
  /\ scan.pc \in {"none", "resolved", "rejected"}
  /\ ~AnswerPending
  /\ scans' = scans + 1
  /\ classifier' = "loaded"
  /\ UNCHANGED <<config, clamscan, idnDetector, metrics>>
  /\ IF source.kind = "directory"
       THEN \* readFileSync throws; scan rethrows
            /\ scan' = [ pc |-> "rejected", source |-> source,
                         answers |-> answers, started |-> {} ]
            /\ tasks' = [d \in DetectorNames |-> NotStarted]
            /\ UNCHANGED analyzers
       ELSE LET mail == source.mail
                Launch(patterns, homograph) ==
            /\ scan' = [ pc |-> "awaiting", source |-> source,
                         answers |-> answers, started |-> DetectorNames,
                         hadDetector |-> idnDetector # 0,
                         hadClamscan |-> clamscan # "null" ]
            /\ tasks' =
                    [ classification |->
                        Fulfilled(getClassification(answers.categorize)),
                      phishing |-> PhishingAt(mail, 1, <<>>),
                      executables |->
                        Fulfilled(getExecutableResults(mail, answers.fileTypes)),
                      macros |-> Fulfilled(getMacroResults(mail)),
                      arbitrary |-> Fulfilled(getArbitraryResults(mail)),
                      viruses |->
                        IF clamscan = "null"
                          THEN IF config.clamscan THEN Pending("init", 0, <<>>)
                               ELSE Fulfilled(<<>>)
                          ELSE VirusAt(mail, 1, <<>>),
                      patterns |-> IF patterns.threw THEN Rejected
                                   ELSE Fulfilled(patterns.value),
                      idnHomographAttack |-> homograph.task ]
            /\ analyzers' = homograph.analyzers
            IN Launch(getPatternResults(config, mail),
                      IF idnDetector = 0
                        THEN [ task |-> Pending("import", 0, <<>>),
                               analyzers |-> analyzers ]
                        ELSE HomographRun(mail, analyzers, idnDetector))

\* the mail of the current scan
ScanMail == scan.source.mail

\* getPhishingResults after its await of isCloudflareBlocked for link t.i:
\* the finding of the blocklist, if any; a rejection would end in the catch
\* of the loop body, with nothing more done for this link
AfterLookup(mail, t, isBlocked) ==
  [ caught |-> isBlocked.threw,
    acc |-> IF isBlocked.threw THEN t.acc
            ELSE t.acc \o BlockedFinding(PhishingLinks(mail)[t.i], isBlocked.value) ]

\* the blocklist answers for the link getPhishingResults waits on, or the
\* request fails
DnsAnswer ==
  /\ ~SettleEnabled
  /\ Waits("phishing", "dns")
  /\ scan.answers.dns[tasks.phishing.i] # "never"
  /\ LET t == tasks.phishing
         Continue(after) ==
           /\ tasks' = [tasks EXCEPT !.phishing = after.task]
           /\ analyzers' = after.analyzers
         Answered(looked) ==
           IF looked.caught
             THEN /\ tasks' = [tasks EXCEPT !.phishing =
                                 PhishingAt(ScanMail, t.i + 1, looked.acc)]
                  /\ UNCHANGED analyzers
           ELSE IF idnDetector = 0
             THEN /\ tasks' = [tasks EXCEPT !.phishing =
                                 Pending("import", t.i, looked.acc)]
                  /\ UNCHANGED analyzers
           ELSE Continue(PhishingAnalyse(ScanMail, t, looked.acc, analyzers,
                                         idnDetector))
     IN Answered(AfterLookup(ScanMail, t,
                             isCloudflareBlocked(scan.answers.dns[t.i])))
  /\ UNCHANGED <<config, classifier, clamscan, idnDetector, metrics, scans, scan>>

\* the blocklist has not answered for 5 s: the timer of isCloudflareBlocked
\* fires
DnsTimeout ==
  /\ ~SettleEnabled
  /\ Waits("phishing", "dns")
  /\ scan.answers.dns[tasks.phishing.i] = "never"
  /\ LET t == tasks.phishing
         Continue(after) ==
           /\ tasks' = [tasks EXCEPT !.phishing = after.task]
           /\ analyzers' = after.analyzers
         TimedOut(looked) ==
           IF looked.caught
             THEN /\ tasks' = [tasks EXCEPT !.phishing =
                                 PhishingAt(ScanMail, t.i + 1, looked.acc)]
                  /\ UNCHANGED analyzers
           ELSE IF idnDetector = 0
             THEN /\ tasks' = [tasks EXCEPT !.phishing =
                                 Pending("import", t.i, looked.acc)]
                  /\ UNCHANGED analyzers
           ELSE Continue(PhishingAnalyse(ScanMail, t, looked.acc, analyzers,
                                         idnDetector))
     IN TimedOut(AfterLookup(ScanMail, t,
                             isCloudflareBlocked(scan.answers.dns[t.i])))
  /\ UNCHANGED <<config, classifier, clamscan, idnDetector, metrics, scans, scan>>

\* getIDNDetector after its await import(...), called by getPhishingResults:
\* a new analyzer is stored in this.idnDetector, whatever is there by now
PhishingImportDone ==
  /\ ~SettleEnabled
  /\ Waits("phishing", "import")
  /\ LET t == tasks.phishing
         Continue(after) ==
           /\ idnDetector' = Len(analyzers) + 1
           /\ analyzers' = after.analyzers
           /\ tasks' = [tasks EXCEPT !.phishing = after.task]
     IN IF scan.answers.idnImport = "ok"
          THEN Continue(PhishingAnalyse(ScanMail, t, t.acc,
                 Append(analyzers, NewEnhancedIDNDetector(
                   ScannerIDNOptions(config.strictIDNDetection))),
                 Len(analyzers) + 1))
          ELSE /\ tasks' = [tasks EXCEPT
                              !.phishing = PhishingAt(ScanMail, t.i + 1, t.acc)]
               /\ UNCHANGED <<analyzers, idnDetector>>
  /\ UNCHANGED <<config, classifier, clamscan, metrics, scans, scan>>

\* the same, called by getIDNHomographResults, which then goes through its
\* links without waiting for anything but microtasks
HomographImportDone ==
  /\ ~SettleEnabled
  /\ Waits("idnHomographAttack", "import")
  /\ LET Continue(after) ==
           /\ idnDetector' = Len(analyzers) + 1
           /\ analyzers' = after.analyzers
           /\ tasks' = [tasks EXCEPT !.idnHomographAttack = after.task]
     IN IF scan.answers.idnImport = "ok"
          THEN Continue(HomographRun(ScanMail,
                 Append(analyzers, NewEnhancedIDNDetector(
                   ScannerIDNOptions(config.strictIDNDetection))),
                 Len(analyzers) + 1))
          ELSE /\ tasks' = [tasks EXCEPT
                              !.idnHomographAttack = Fulfilled(NoHomographResult)]
               /\ UNCHANGED <<analyzers, idnDetector>>
  /\ UNCHANGED <<config, classifier, clamscan, metrics, scans, scan>>

\* new ClamScan().init(...) settles: this.clamscan is set and the loop over
\* the attachments starts, or getVirusResults returns []
ClamInitDone ==
  /\ ~SettleEnabled
  /\ Waits("viruses", "init")
  /\ scan.answers.clamInit # "never"
  /\ IF scan.answers.clamInit = "ok"
       THEN /\ clamscan' = "ready"
            /\ tasks' = [tasks EXCEPT !.viruses = VirusAt(ScanMail, 1, <<>>)]
       ELSE /\ tasks' = [tasks EXCEPT !.viruses = Fulfilled(<<>>)]
            /\ UNCHANGED clamscan
  /\ UNCHANGED <<config, classifier, analyzers, idnDetector, metrics, scans, scan>>

\* scanBuffer settles for the attachment getVirusResults waits on
ClamScanDone ==
  /\ ~SettleEnabled
  /\ Waits("viruses", "scan")
  /\ scan.answers.clamScan[tasks.viruses.i] # "never"
  /\ LET t == tasks.viruses
         acc == IF scan.answers.clamScan[t.i] = "infected"
                  THEN t.acc \o VirusFinding(ScanMail.attachments[t.i])
                  ELSE t.acc
     IN tasks' = [tasks EXCEPT !.viruses = VirusAt(ScanMail, t.i + 1, acc)]
  /\ UNCHANGED <<config, classifier, clamscan, analyzers, idnDetector, metrics,
                 scans, scan>>

\* the timer of config.timeout wins the race against scanBuffer
ClamScanTimeout ==
  /\ ~SettleEnabled
  /\ Waits("viruses", "scan")
  /\ scan.answers.clamScan[tasks.viruses.i] = "never"
  /\ tasks' = [tasks EXCEPT
                 !.viruses = VirusAt(ScanMail, tasks.viruses.i + 1, tasks.viruses.acc)]
  /\ UNCHANGED <<config, classifier, clamscan, analyzers, idnDetector, metrics,
                 scans, scan>>

\* the results of the eight tasks, once all are fulfilled
TaskResults == [d \in DetectorNames |-> tasks[d].value]

\* await Promise.all([...]) and the rest of scan: rejected as soon as one
\* task is rejected (the catch of scan rethrows); else verdict, message,
\* metrics and the result
ScanSettle ==
  /\ SettleEnabled
  /\ IF \E d \in DetectorNames : tasks[d].st = "rejected"
       THEN /\ scan' = [scan EXCEPT !.pc = "rejected"]
            /\ UNCHANGED metrics
       ELSE /\ scan' = [ pc |-> "resolved", source |-> scan.source,
                         answers |-> scan.answers, started |-> scan.started,
                         hadDetector |-> scan.hadDetector,
                         hadClamscan |-> scan.hadClamscan,
                         result |-> [ isSpam |-> isSpam(config, TaskResults),
                                      message |-> scanMessage(config, TaskResults),
                                      results |-> TaskResults,
                                      links |-> extractAllUrls(ScanMail,
                                                               scan.source) ] ]
            /\ metrics' = [metrics EXCEPT !.totalScans = @ + 1]
  /\ UNCHANGED <<config, classifier, clamscan, analyzers, idnDetector, scans, tasks>>

---------------------------------------------------------------------------
(* Properties of a scan                                                    *)

\* the scan of the model has returned
Resolved == scan.pc = "resolved"

\* C2: when a detector task fails internally the scan still resolves, the
\* failed detector counting as having found nothing: no scan is rejected
\* with one of its detector tasks rejected.
C2_DetectorFailureContained ==
  \A d \in DetectorNames :
    /\ tasks[d].st # "rejected"
    /\ scan.pc = "rejected" => d \notin scan.started

\* C3: scan settles only after all eight detector tasks have settled: it is
\* neither resolved nor rejected while a task it started is still pending.
C3_VerdictAfterAllSettled ==
  scan.pc \in {"resolved", "rejected"} =>
    \A d \in scan.started : tasks[d].st # "pending"

\* C4: every scan completes, whatever answer of a collaborator never comes.
\* A scan that waits for its detector tasks completes only through a step
\* of the event loop: the reaction of Promise.all, the answer of a
\* collaborator, or the timer set for that answer.  So while it waits, one of
\* these is always to come; a scan with none of them never completes.
C4_EveryScanCompletes ==
  scan.pc = "awaiting" => SettleEnabled \/ AnswerPending

\* C5: a source that is neither a string nor a Buffer nor the path of a
\* readable file makes scan reject before any detector is started, and
\* nothing else makes scan reject.
C5_RejectsOnlyMalformedSource ==
  scan.pc # "none" =>
    /\ scan.source.kind \in {"number", "directory"} =>
         scan.pc = "rejected" /\ scan.started = {}
    /\ scan.pc = "rejected" => scan.source.kind \in {"number", "directory"}

\* What each waiting detector returns for a message and the answers of the
\* collaborators, written without tasks, steps or cache: every link analysed
\* afresh by analyzeComprehensive.  `available`: the scanner has an analyzer
\* (from an earlier scan, or the import succeeds); `scanning`: it has a
\* virus scanner.
\* the analyzer getIDNDetector builds
ScannerAnalyzer(options) ==
  NewEnhancedIDNDetector(ScannerIDNOptions(options.strictIDNDetection))

RECURSIVE Concat(_)
Concat(seqs) == IF seqs = <<>> THEN <<>> ELSE Head(seqs) \o Concat(Tail(seqs))

ExpectedPhishing(options, mail, answers, available) ==
  LET links == PhishingLinks(mail)
      Analysed(url, hostname) ==
        IF available /\ hostname # <<>>
          THEN HomographFinding(url,
                 analyzeComprehensive(ScannerAnalyzer(options).options,
                   hostname, PhishingContext(mail, url, optimizeUrlParsing(url))))
          ELSE <<>>
      Link(k, url, parsed) ==
        IF parsed.threw THEN <<>>
        ELSE BlockedFinding(url, answers.dns[k] = "blocked")
             \o Analysed(url, parsed.hostname)
  IN Concat([k \in 1..Len(links) |->
               Link(k, links[k], ParsedHostname(links[k]))])

ExpectedHomograph(options, mail, available) ==
  LET links == HomographLinks(mail)
      Link(url, parsed) ==
        IF parsed.threw \/ parsed.hostname = <<>> THEN <<>>
        ELSE SuspiciousDomain(url,
               analyzeComprehensive(ScannerAnalyzer(options).options,
                 parsed.hostname,
                 HomographContext(mail, url, optimizeUrlParsing(url))))
  IN IF available
       THEN HomographResult(Concat([k \in 1..Len(links) |->
                                      Link(links[k], ParsedHostname(links[k]))]))
       ELSE NoHomographResult

ExpectedViruses(mail, answers, scanning) ==
  IF scanning
    THEN Concat([k \in 1..Len(mail.attachments) |->
                   IF mail.attachments[k].content
                      /\ answers.clamScan[k] = "infected"
                     THEN VirusFinding(mail.attachments[k]) ELSE <<>>])
    ELSE <<>>

ExpectedResults ==
  [ classification |-> getClassification(scan.answers.categorize),
    phishing |-> ExpectedPhishing(config, ScanMail, scan.answers,
                   scan.hadDetector \/ scan.answers.idnImport = "ok"),
    executables |-> getExecutableResults(ScanMail, scan.answers.fileTypes),
    macros |-> getMacroResults(ScanMail),
    arbitrary |-> getArbitraryResults(ScanMail),
    viruses |-> ExpectedViruses(ScanMail, scan.answers,
                  config.clamscan
                  /\ (scan.hadClamscan \/ scan.answers.clamInit = "ok")),
    patterns |-> getPatternResults(config, ScanMail).value,
    idnHomographAttack |-> ExpectedHomograph(config, ScanMail,
                             scan.hadDetector \/ scan.answers.idnImport = "ok") ]

\* C6: the result of a scan depends on the message, the answers of the
\* collaborators and what the scanner had when the scan began, not on the
\* order in which the detector tasks run and finish: every finding set, and
\* so isSpam and message, is the one computed without that order.
C6_ResultIndependentOfOrder ==
  Resolved =>
    /\ scan.result.results = ExpectedResults
    /\ scan.result.isSpam = isSpam(config, ExpectedResults)
    /\ scan.result.message = scanMessage(config, ExpectedResults)

\* the phishing and the homograph task have both gone through the one
\* analyzer of the scanner, which cached the same domain in their two
\* contexts, and both report it
C6_Witness ==
  /\ Resolved
  /\ ScanMail = TwinMail
  /\ Len(analyzers) = 1
  /\ Cardinality(DOMAIN analyzers[1].cache) >= 3
  /\ scan.result.results.phishing # <<>>
  /\ scan.result.results.idnHomographAttack.detected
  /\ scan.result.isSpam

\* the file paths getFilePathResults reports in "benign" mode
BenignPaths(mail) ==
  [k \in 1..(IF Len(mail.filePaths) > MAX_PATHS THEN MAX_PATHS
             ELSE Len(mail.filePaths)) |->
     [ type |-> "file_path", path |-> mail.filePaths[k].path,
       description |-> "Benign file path detected" ]]

\* a result whose only findings are file_path patterns
OnlyFilePathFindings(result) ==
  /\ result.results.classification.category # "spam"
  /\ \A d \in {"phishing", "executables", "macros", "arbitrary", "viruses"} :
       result.results[d] = <<>>
  /\ ~result.results.idnHomographAttack.detected
  /\ \A k \in 1..Len(result.results.patterns) :
       result.results.patterns[k].type = "file_path"

NormalizedMatches ==
  LET OrKept(url, n) == IF n.threw THEN url ELSE n.value
      Each(matches) ==
        [k \in 1..Len(matches) |->
           OrKept(matches[k], normalizeUrl(matches[k], FALSE))]
  IN Each(AllTextMatches(ScanMail, scan.source))

\* where a value occurs first in a sequence that holds it
FirstIndex(seq, x) ==
  CHOOSE k \in 1..Len(seq) : seq[k] = x /\ \A m \in 1..(k - 1) : seq[m] # x

\* C15: the links of every scan result hold no URL twice; they are the
\* normalized forms of the URLs extracted from the message, each once, in
\* the order in which each form occurs first.
C15_LinksWithoutDuplicates ==
  Resolved =>
    LET Listed(links, forms) ==
          /\ \A i, j \in 1..Len(links) : links[i] = links[j] => i = j
          /\ {links[i] : i \in 1..Len(links)}
               = {forms[k] : k \in 1..Len(forms)}
          /\ \A i, j \in 1..Len(links) :
               i < j => FirstIndex(forms, links[i]) < FirstIndex(forms, links[j])
    IN Listed(scan.result.links, NormalizedMatches)

\* a scan has returned three links for a message in which ten URLs were
\* matched, two of them written differently with the same normalized form
C15_Witness ==
  /\ Resolved
  /\ Len(scan.result.links) = 3
  /\ Len(AllTextMatches(ScanMail, scan.source)) = 10
  /\ \E i, j \in 1..Len(NormalizedMatches) :
       /\ AllTextMatches(ScanMail, scan.source)[i]
            # AllTextMatches(ScanMail, scan.source)[j]
       /\ NormalizedMatches[i] = NormalizedMatches[j]

\* the scan has returned a result for a message without URL and without
\* attachment that the classifier (or its fallback) calls "ham"
HamWithoutLinks ==
  /\ Resolved
  /\ AllTextMatches(ScanMail, scan.source) = <<>>
  /\ ScanMail.attachments = <<>>
  /\ scan.result.results.classification.category = "ham"

\* the result is the one of a clean message
CleanResult(result) ==
  /\ ~result.isSpam
  /\ result.message = <<"Ham">>
  /\ \A d \in {"phishing", "executables", "macros", "arbitrary", "viruses",
                "patterns"} : result.results[d] = <<>>
  /\ result.results.idnHomographAttack = NoHomographResult
  /\ result.links = <<>>

\* nothing in the content of a message is matched by the detectors that
\* read the text: no group of macro patterns, not the GTUBE string, no date
\* pattern more than five times, no file path
NoContentMatch(mail) ==
  /\ mail.macroPatterns = {}
  /\ ~mail.gtube
  /\ \A k \in 1..Len(mail.dateMatches) : mail.dateMatches[k] <= 5
  /\ mail.filePaths = <<>>

\* C19 as stated: every message with zero URLs, zero attachments and the
\* classification category "ham" gets isSpam false, the message "Ham" and
\* every finding set empty.
C19_HamWithoutLinksIsClean ==
  HamWithoutLinks => CleanResult(scan.result)

\* C19, amended: every message with zero URLs, zero attachments, the
\* classification category "ham" and a content in which the macro, GTUBE,
\* date and file path patterns match nothing gets isSpam false, the message
\* "Ham" and every finding set empty.
C19_UnmatchedHamIsClean ==
  HamWithoutLinks /\ NoContentMatch(ScanMail) => CleanResult(scan.result)

\* the second scan of a scanner returned the clean result for the text with
\* five dates, which the classifier called "ham"
C19_Witness ==
  /\ HamWithoutLinks
  /\ scans = 2
  /\ ScanMail = PlainMail
  /\ scan.answers.categorize = "ham"
  /\ scan.source.kind = "string"
  /\ CleanResult(scan.result)

\* the answers of the blocklist with which no response that says "blocked"
\* reaches isCloudflareBlocked within 5 s
FailedLookups == {"refused", "error", "never"}

\* the list of findings holds the finding of the blocklist for the link
HasBlockedFinding(findings, url) ==
  \E j \in DOMAIN findings : <<findings[j]>> = BlockedFinding(url, TRUE)

\* the findings getPhishingResults has for the report of the analyzer on a
\* link, as a set
AnalysisFindings(options, mail, url) ==
  LET Of(found) == { found[j] : j \in DOMAIN found }
  IN IF ParsedHostname(url).hostname = <<>> THEN {}
     ELSE Of(HomographFinding(url,
               analyzeComprehensive(ScannerAnalyzer(options).options,
                 ParsedHostname(url).hostname,
                 PhishingContext(mail, url, optimizeUrlParsing(url)))))

C28_OneAnalyzerPerScanner ==
  /\ Len(analyzers) <= 1
  /\ idnDetector \in {0, Len(analyzers)}

\* C21: a scanner constructed with enableMacroDetection false finds no
\* macros: in the result of each of its scans results.macros is empty, and
\* isSpam and the message are those of the result without macro findings.
C21_MacroDetectionDisabled ==
  (Resolved /\ ~config.enableMacroDetection) =>
    /\ scan.result.results.macros = <<>>
    /\ scan.result.isSpam
         = isSpam(config, [scan.result.results EXCEPT !.macros = <<>>])
    /\ scan.result.message
         = scanMessage(config, [scan.result.results EXCEPT !.macros = <<>>])

---------------------------------------------------------------------------
(* The stemmer module (node-snowball.ts)                                   *)

\* a call that throws an error of a given class
ThrownError(name) == [threw |-> TRUE, error |-> name]

\* language.toLowerCase() for the language codes of the model
LanguageLower(language) ==
  CASE language = "EN-us" -> "en-us"
    [] language = "NB" -> "nb"
    [] OTHER -> language

\* LANGUAGE_MAP, for the keys that occur in the model: the stemmer of natural
\* that each key stands for ("ar" is one of the keys that fall back to the
\* English stemmer)
LANGUAGE_MAP ==
  [ en |-> "PorterStemmer", english |-> "PorterStemmer",
    no |-> "PorterStemmerNo", ja |-> "StemmerJa",
    ar |-> "PorterStemmer", porter |-> "PorterStemmer" ]

\* the lower-case property names LANGUAGE_MAP, an object literal, inherits
\* from Object.prototype; their values have no stem method
INHERITED_KEYS == {"constructor", "__proto__"}

\* getStemmer(language): LANGUAGE_MAP[normalizedLang] || null
getStemmer(language) ==
  LET Found(normalizedLang) ==
        IF normalizedLang \in DOMAIN LANGUAGE_MAP THEN LANGUAGE_MAP[normalizedLang]
        ELSE IF normalizedLang \in INHERITED_KEYS THEN "Object"
        ELSE "null"
  IN Found(LanguageLower(language))

\* isLanguageSupported(language): normalizedLang in LANGUAGE_MAP
isLanguageSupported(language) ==
  LanguageLower(language) \in DOMAIN LANGUAGE_MAP \cup INHERITED_KEYS

\* The stemmers of natural on the words of the model: the English one puts
\* the word in lower case, takes a final "ing" off (and one of two equal
\* letters before it) or else a final "s" that follows no "s"; the Norwegian
\* one takes a final "s" off; the Japanese one leaves a Latin word as it is.
\* Of "agreed" the English one makes "agre" ("eed" to "ee", then the final
\* "e" off), and of "agre" it makes "agr" (the final "e" off again).
PorterStem(word) ==
  LET Undoubled(w) ==
        IF Len(w) >= 2 /\ w[Len(w)] = w[Len(w) - 1]
          THEN SubSeq(w, 1, Len(w) - 1) ELSE w
      Stemmed(w) ==
        IF Len(w) > 5 /\ EndsWith(w, <<105, 110, 103>>)
          THEN Undoubled(SubSeq(w, 1, Len(w) - 3))
        ELSE IF Len(w) > 2 /\ EndsWith(w, <<115>>) /\ ~EndsWith(w, <<115, 115>>)
          THEN SubSeq(w, 1, Len(w) - 1)
        ELSE w
      Steps(w) ==
        IF w = <<97, 103, 114, 101, 101, 100>> THEN <<97, 103, 114, 101>>
        ELSE IF w = <<97, 103, 114, 101>> THEN <<97, 103, 114>>
        ELSE Stemmed(w)
  IN Steps(ToLowerCase(word))

\* stemmer.stem(word); a value without a stem method makes the call throw a
\* TypeError
StemmerStem(stemmer, word) ==
  CASE stemmer = "PorterStemmer" -> Returned(PorterStem(word))
    [] stemmer = "PorterStemmerNo" ->
         Returned(IF Len(word) > 2 /\ EndsWith(word, <<115>>)
                    THEN SubSeq(word, 1, Len(word) - 1) ELSE word)
    [] stemmer = "StemmerJa" -> Returned(word)
    [] OTHER -> ThrownError("TypeError")

\* (variant: nothing is handed back unstemmed, whatever fallbackToOriginal)
stemWordOrThrow(word, language, encoding, fallbackToOriginal) ==
  LET With(stemmer) ==
        IF stemmer = "null" THEN ThrownError("UnavailableAlgorithmError")
        ELSE StemmerStem(stemmer, word)
  IN IF word = <<>> THEN Returned(word) ELSE With(getStemmer(language))

\* stemWord(word, language, _encoding, fallbackToOriginal)
stemWord(word, language, encoding, fallbackToOriginal) ==
  LET Tried(stemmed) ==
        IF stemmed.threw /\ fallbackToOriginal THEN Returned(word) ELSE stemmed
      With(stemmer) ==
        IF stemmer = "null"
          THEN IF fallbackToOriginal THEN Returned(word)
               ELSE ThrownError("UnavailableAlgorithmError")
          ELSE Tried(StemmerStem(stemmer, word))
  IN IF word = <<>> THEN Returned(word) ELSE With(getStemmer(language))

\* input.map(f) for a function that may throw: the array of what the calls
\* return, or what the first call that throws has thrown
MapOutcome(outcomes) ==
  LET failed == {k \in 1..Len(outcomes) : outcomes[k].threw}
  IN IF failed = {}
       THEN Returned([k \in 1..Len(outcomes) |-> outcomes[k].value])
       ELSE outcomes[CHOOSE k \in failed : \A m \in failed : k <= m]

\* stemword(input, language, encoding) on an array of words
stemword(input, language, encoding) ==
  MapOutcome([k \in 1..Len(input) |->
                stemWord(input[k], language, encoding, TRUE)])

\* stemwordAdvanced(input, config) on an array of words; config is
\* {language, encoding, fallbackToOriginal}, fallbackToOriginal = true when
\* it is not given
stemwordAdvanced(input, stemmerConfig) ==
  LET Mapped(fallbackToOriginal) ==
        MapOutcome([k \in 1..Len(input) |->
                      stemWord(input[k], stemmerConfig.language,
                               stemmerConfig.encoding, fallbackToOriginal)])
  IN Mapped(IF "fallbackToOriginal" \in DOMAIN stemmerConfig
              THEN stemmerConfig.fallbackToOriginal ELSE TRUE)

---------------------------------------------------------------------------
(* SpamScanner: tokens and stems (mod.ts)                                  *)

\* the options of the constructor that tokenizing and stemming read, with
\* their defaults (hashTokens has none)
DefaultTokenConfig ==
  [ enableMixedLanguageDetection |-> FALSE,
    enableAdvancedStemming |-> FALSE,
    stemmingEncoding |-> "UTF_8",
    stemmingFallbackToOriginal |-> TRUE,
    hashTokens |-> FALSE ]

\* this.config of new SpamScanner(options), for these options
NewTokenConfig(options) ==
  [k \in DOMAIN DefaultTokenConfig |->
     IF k \in DOMAIN options THEN options[k] ELSE DefaultTokenConfig[k]]

WHITESPACE == {9, 10, 13, 32}

\* isSANB(string_): a string that is not blank
isSANB(string_) == \E i \in 1..Len(string_) : string_[i] \notin WHITESPACE

\* a code point GENERIC_TOKENIZER does not split at: Latin letters (the
\* expression is case-insensitive), digits, the hyphen, the accented Latin
\* letters and the Cyrillic ones
IsWordCp(cp) ==
  \/ cp >= 97 /\ cp <= 122
  \/ cp >= 65 /\ cp <= 90
  \/ cp >= 48 /\ cp <= 57
  \/ cp = 45
  \/ cp >= 192 /\ cp <= 255 /\ cp \notin {215, 247}
  \/ cp >= 1040 /\ cp <= 1103
  \/ cp \in {1025, 1105}

\* text.split(GENERIC_TOKENIZER) (generic) or text.split(WHITESPACE_REGEX):
\* the pieces between the runs of separators, empty ones at the ends
\* included
RECURSIVE Split(_, _)
Split(text, generic) ==
  LET IsSeparator(i) ==
        IF generic THEN ~IsWordCp(text[i]) ELSE text[i] \in WHITESPACE
      \* the piece before the run of separators that begins at `first`, then
      \* the pieces of what follows the run
      Cut(first) ==
        LET Rest(after) ==
              <<SubSeq(text, 1, first - 1)>>
              \o Split(SubSeq(text, after, Len(text)), generic)
        IN Rest(CHOOSE j \in (first + 1)..(Len(text) + 1) :
                  /\ \A k \in first..(j - 1) : IsSeparator(k)
                  /\ j = Len(text) + 1 \/ ~IsSeparator(j))
  IN IF \A i \in 1..Len(text) : ~IsSeparator(i) THEN <<text>>
     ELSE Cut(CHOOSE i \in 1..Len(text) :
                /\ IsSeparator(i)
                /\ \A k \in 1..(i - 1) : ~IsSeparator(k))

\* converter.toHalfWidth(text): the full-width forms become ASCII
toHalfWidth(text) ==
  [i \in 1..Len(text) |->
     IF text[i] >= 65281 /\ text[i] <= 65374 THEN text[i] - 65248
     ELSE IF text[i] = 12288 THEN 32
     ELSE text[i]]

\* expandContractions(text) on the contraction of the model: "n't" becomes
\* " not"
RECURSIVE expandContractions(_)
expandContractions(text) ==
  LET Contracted(p) == SubSeq(text, p, p + 2) = <<110, 39, 116>>
      Expanded(p) ==
        SubSeq(text, 1, p - 1) \o <<32, 110, 111, 116>>
        \o expandContractions(SubSeq(text, p + 3, Len(text)))
  IN IF \A p \in 1..(Len(text) - 2) : ~Contracted(p) THEN text
     ELSE Expanded(CHOOSE p \in 1..(Len(text) - 2) :
                     /\ Contracted(p)
                     /\ \A q \in 1..(p - 1) : ~Contracted(q))

\* lande(text)[0][0]: the language the detector ranks first, a three-letter
\* code, by the script of the text
Lande(text) ==
  IF \E i \in 1..Len(text) : text[i] >= 1024 /\ text[i] <= 1279
    THEN "rus" ELSE "eng"

\* parseLocale(locale): lower case, the part before "-", aliases mapped
parseLocale(locale) ==
  CASE locale = "" -> "en"
    [] locale = "EN-us" -> "en"
    [] locale = "NB" -> "no"
    [] OTHER -> locale

\* token.trim()
RECURSIVE Trim(_)
Trim(token) ==
  IF token # <<>> /\ Head(token) \in WHITESPACE THEN Trim(Tail(token))
  ELSE IF token # <<>> /\ token[Len(token)] \in WHITESPACE
    THEN Trim(SubSeq(token, 1, Len(token) - 1))
  ELSE token

\* natural.stopwords, the English words every set of stopwordsMap starts
\* with: here "i", "a", "the", "do", "not"
ENGLISH_STOPWORDS ==
  { <<105>>, <<97>>, <<116, 104, 101>>, <<100, 111>>, <<110, 111, 116>> }

\* stopwordsMap.get(locale) || stopwordsMap.get("en"); the Norwegian set
\* adds "og"
Stopwords(locale) ==
  IF locale = "no" THEN ENGLISH_STOPWORDS \cup { <<111, 103>> }
  ELSE ENGLISH_STOPWORDS

\* createHash("sha256").update(token).digest("hex").slice(0, 16): different
\* tokens of one model run are taken to have different digests
Sha256Prefix(token) == <<35>> \o token

\* isAdvancedStemmingSupported(locale)
isAdvancedStemmingSupported(locale) ==
  isLanguageSupported(locale) /\ locale \notin {"ar"}

\* a property of an options object, or the default when it is not given
OptionOr(options, name, default) ==
  IF name \in DOMAIN options THEN options[name] ELSE default

\* getEnhancedStemming(tokens, locale, options): the try block and its catch
getEnhancedStemming(tokens, locale, options) ==
  LET Caught(tried, fallbackToOriginal) ==
        IF tried.threw
          THEN Returned(IF fallbackToOriginal THEN tokens ELSE <<>>)
          ELSE tried
      Try(encoding, fallbackToOriginal, useAdvancedStemming) ==
        Caught(IF ~isLanguageSupported(locale) THEN Returned(tokens)
               ELSE IF useAdvancedStemming
                 THEN stemwordAdvanced(tokens,
                        [ language |-> locale, encoding |-> encoding,
                          fallbackToOriginal |-> fallbackToOriginal ])
               ELSE stemword(tokens, locale, encoding),
               fallbackToOriginal)
  IN IF tokens = <<>> THEN Returned(<<>>)
     ELSE Try(OptionOr(options, "encoding", "UTF_8"),
              OptionOr(options, "fallbackToOriginal", TRUE),
              OptionOr(options, "useAdvancedStemming", FALSE))

\* the body of getTokens(string_, locale), which reads this.config and
\* nothing else of the scanner (no caller passes isHtml)
getTokensWith(tokenConfig, string_, locale) ==
  LET Hashed(processedTokens) ==
        IF tokenConfig.hashTokens
          THEN [k \in 1..Len(processedTokens) |->
                  Sha256Prefix(processedTokens[k])]
          ELSE processedTokens
      Stemmed(processedTokens, parsed) ==
        Hashed(IF isLanguageSupported(parsed)
                 THEN getEnhancedStemming(processedTokens, parsed,
                        [ encoding |-> tokenConfig.stemmingEncoding,
                          fallbackToOriginal |->
                            tokenConfig.stemmingFallbackToOriginal,
                          useAdvancedStemming |->
                            tokenConfig.enableAdvancedStemming
                            /\ isAdvancedStemmingSupported(parsed) ]).value
                 ELSE processedTokens)
      Processed(tokens, parsed) ==
        Stemmed(SelectSeq([k \in 1..Len(tokens) |-> Trim(ToLowerCase(tokens[k]))],
                          LAMBDA token : /\ Len(token) > 0
                                         /\ Len(token) <= 50
                                         /\ token \notin Stopwords(parsed)),
                parsed)
      Tokenized(text, parsed) ==
        Processed(Split(text, parsed \notin {"ja", "zh"}), parsed)
      Detected(detectedLocale) ==
        Tokenized(expandContractions(toHalfWidth(string_)),
                  parseLocale(detectedLocale))
  IN IF ~isSANB(string_) THEN Returned(<<>>)
     ELSE Returned(Detected(IF locale = ""
                                 \/ tokenConfig.enableMixedLanguageDetection
                              THEN Lande(string_) ELSE locale))

\* A scanner, for tokenizing: this.config and this.replacements (a list of
\* pairs, empty after the constructor).
NewTokenScanner(options) ==
  [config |-> NewTokenConfig(options), replacements |-> <<>>]

\* the fallback table of initializeReplacements, in the order in which a
\* Map built from the object literal holds it: "2", "4", "u", "ur", "r", "n",
\* "w/", "b4"
BASIC_REPLACEMENTS ==
  << << <<50>>, <<116, 111>> >>,
     << <<52>>, <<102, 111, 114>> >>,
     << <<117>>, <<121, 111, 117>> >>,
     << <<117, 114>>, <<121, 111, 117, 114>> >>,
     << <<114>>, <<97, 114, 101>> >>,
     << <<110>>, <<97, 110, 100>> >>,
     << <<119, 47>>, <<119, 105, 116, 104>> >>,
     << <<98, 52>>, <<98, 101, 102, 111, 114, 101>> >> >>

\* the table replacements.ts exports when replacements.json is missing: each
\* word of replacement-words.json followed by ten random letters, drawn once
\* per process; here the word "dogs"
MODULE_REPLACEMENTS ==
  << << <<100, 111, 103, 115>>,
        <<100, 111, 103, 115, 120, 113, 122, 118, 107, 109, 119, 112, 106, 104>> >> >>

\* initializeReplacements(): this.replacements afterwards; imported tells
\* whether the import of replacements.js succeeded
initializeReplacements(scanner, imported) ==
  IF Len(scanner.replacements) > 0 THEN scanner.replacements
  ELSE IF imported THEN MODULE_REPLACEMENTS
  ELSE BASIC_REPLACEMENTS

\* text.replaceAll(new RegExp(escapeStringRegexp(original), "gi"),
\* replacement)
RECURSIVE ReplaceAllIgnoringCase(_, _, _)
ReplaceAllIgnoringCase(text, original, replacement) ==
  LET Matches(p) ==
        ToLowerCase(SubSeq(text, p, p + Len(original) - 1)) = ToLowerCase(original)
      Replaced(p) ==
        SubSeq(text, 1, p - 1) \o replacement
        \o ReplaceAllIgnoringCase(SubSeq(text, p + Len(original), Len(text)),
                                  original, replacement)
  IN IF \A p \in 1..(Len(text) - Len(original) + 1) : ~Matches(p) THEN text
     ELSE Replaced(CHOOSE p \in 1..(Len(text) - Len(original) + 1) :
                     /\ Matches(p)
                     /\ \A q \in 1..(p - 1) : ~Matches(q))

\* for (const [original, replacement] of this.replacements) ...
RECURSIVE ApplyReplacements(_, _)
ApplyReplacements(text, replacements) ==
  IF replacements = <<>> THEN text
  ELSE ApplyReplacements(
         ReplaceAllIgnoringCase(text, Head(replacements)[1], Head(replacements)[2]),
         Tail(replacements))

\* preprocessText(string_); the texts of the model hold nothing the patterns
\* of the advanced pattern recognition or NULL_UNDEFINED_REGEX match
preprocessText(scanner, string_) ==
  IF ~isSANB(string_) THEN <<>>
  ELSE ApplyReplacements(string_, scanner.replacements)

\* (variant: the text goes through preprocessText first)
getTokensOfPreprocessed(scanner, string_, locale) ==
  getTokensWith(scanner.config, preprocessText(scanner, string_), locale)

\* getTokens(string_, locale) on a scanner
getTokens(scanner, string_, locale) ==
  getTokensWith(scanner.config, string_, locale)

\* allContent of getTokensAndMailFromSource for a message that is its text,
\* without HTML part and subject: the three preprocessed contents joined by
\* " "
ScanContent(scanner, text) == preprocessText(scanner, text) \o <<32, 32>>

\* stemText(text, locale, options): the tokens of getTokens go through
\* getEnhancedStemming with the options of the call over those of the
\* configuration
stemText(scanner, text, locale, options) ==
  LET Merged(base) ==
        [k \in DOMAIN base \cup DOMAIN options |->
           IF k \in DOMAIN options THEN options[k] ELSE base[k]]
  IN IF ~isSANB(text) THEN Returned(<<>>)
     ELSE getEnhancedStemming(
            getTokens(scanner, text, locale).value, locale,
            Merged([ encoding |-> scanner.config.stemmingEncoding,
                     fallbackToOriginal |->
                       scanner.config.stemmingFallbackToOriginal,
                     useAdvancedStemming |->
                       OptionOr(options, "useAdvancedStemming",
                                scanner.config.enableAdvancedStemming) ]))

---------------------------------------------------------------------------
(* SpecTokens: one scanner and the stemmer module, called with texts       *)

VARIABLES
  tokScanner,  \* the SpamScanner: [config, replacements]
  tokLast,     \* the last call and how it ended
  tokCalls     \* number of calls made

tokVars == <<tokScanner, tokLast, tokCalls>>

MaxTokCalls == 2

\* "I don't like u"
TextLike == <<73, 32, 100, 111, 110, 39, 116, 32, 108, 105, 107, 101, 32, 117>>

\* "Running dogs, running DOGS", the last word in full-width letters
TextDogs ==
  <<82, 117, 110, 110, 105, 110, 103, 32, 100, 111, 103, 115, 44, 32, 114,
    117, 110, 110, 105, 110, 103, 32, 65316, 65327, 65319, 65331>>

\* a word of 51 letters, then "sings"
TextLong == [i \in 1..51 |-> 97] \o <<32, 115, 105, 110, 103, 115>>

\* three blanks
TextBlank == <<32, 32, 32>>

\* "agreed"
TextAgreed == <<97, 103, 114, 101, 101, 100>>

Texts == {TextLike, TextDogs, TextLong, TextBlank, TextAgreed}

\* locales: keys of the registry (as written, in capitals with a region, an
\* alias), codes that are no key, a property name every object inherits,
\* and none
Locales == {"en", "EN-us", "NB", "ar", "ja", "xx", "constructor", ""}

\* the locales that are not in the stemmer registry, neither as they are
\* written nor as parseLocale reads them
AbsentLocales ==
  { locale \in Locales :
      {LanguageLower(locale), parseLocale(locale)} \cap DOMAIN LANGUAGE_MAP = {} }

\* token sequences: none, "running" "dogs" "running", and "Sings" with an
\* empty token
TokenSeqs ==
  { <<>>,
    << <<114, 117, 110, 110, 105, 110, 103>>, <<100, 111, 103, 115>>,
       <<114, 117, 110, 110, 105, 110, 103>> >>,
    << <<83, 105, 110, 103, 115>>, <<>> >> }

\* the options of stemText and getEnhancedStemming
StemOptions ==
  { <<>>,
    [fallbackToOriginal |-> TRUE, useAdvancedStemming |-> TRUE],
    [fallbackToOriginal |-> FALSE],
    [fallbackToOriginal |-> FALSE, useAdvancedStemming |-> TRUE] }

\* the options scanners are constructed with
TokenScannerOptions ==
  { <<>>,
    [hashTokens |-> TRUE],
    [enableMixedLanguageDetection |-> TRUE],
    [stemmingFallbackToOriginal |-> FALSE, enableAdvancedStemming |-> TRUE] }

NoTokCall == [made |-> FALSE]

\* what a call leaves in tokLast
TokCall(op, input, locale, options, outcome) ==
  [ made |-> TRUE, op |-> op, input |-> input, locale |-> locale,
    options |-> options, outcome |-> outcome ]

IdleTokens ==
  /\ tokScanner = NewTokenScanner(<<>>)
  /\ tokLast = NoTokCall
  /\ tokCalls = 0

InitTokenVars ==
  /\ tokScanner \in {NewTokenScanner(options) : options \in TokenScannerOptions}
  /\ tokLast = NoTokCall
  /\ tokCalls = 0

\* scanner.getTokens(text, locale)
GetTokens(text, locale) ==
  /\ tokCalls < MaxTokCalls
  /\ tokLast' = TokCall("getTokens", text, locale, <<>>,
                        getTokens(tokScanner, text, locale))
  /\ tokCalls' = tokCalls + 1
  /\ UNCHANGED tokScanner

\* scanner.stemText(text, locale, options)
StemText(text, locale, options) ==
  /\ tokCalls < MaxTokCalls
  /\ tokLast' = TokCall("stemText", text, locale, options,
                        stemText(tokScanner, text, locale, options))
  /\ tokCalls' = tokCalls + 1
  /\ UNCHANGED tokScanner

\* scanner.getEnhancedStemming(tokens, locale, options)
GetEnhancedStemming(tokens, locale, options) ==
  /\ tokCalls < MaxTokCalls
  /\ tokLast' = TokCall("getEnhancedStemming", tokens, locale, options,
                        getEnhancedStemming(tokens, locale, options))
  /\ tokCalls' = tokCalls + 1
  /\ UNCHANGED tokScanner

\* stemword(tokens, language, encoding) of the stemmer module
Stemword(tokens, language) ==
  /\ tokCalls < MaxTokCalls
  /\ tokLast' = TokCall("stemword", tokens, language, <<>>,
                        stemword(tokens, language, "UTF_8"))
  /\ tokCalls' = tokCalls + 1
  /\ UNCHANGED tokScanner

\* stemwordAdvanced(tokens, {language, encoding, fallbackToOriginal}) of the
\* stemmer module
StemwordAdvanced(tokens, language, fallbackToOriginal) ==
  /\ tokCalls < MaxTokCalls
  /\ tokLast' = TokCall("stemwordAdvanced", tokens, language,
                        [fallbackToOriginal |-> fallbackToOriginal],
                        stemwordAdvanced(tokens,
                          [ language |-> language, encoding |-> "UTF_8",
                            fallbackToOriginal |-> fallbackToOriginal ]))
  /\ tokCalls' = tokCalls + 1
  /\ UNCHANGED tokScanner

\* scanner.scan(text), as far as tokens go: initializeReplacements, then the
\* tokens of getTokensAndMailFromSource
ScanTokens(text, imported) ==
  /\ tokCalls < MaxTokCalls
  /\ LET Initialized(scanner) ==
           /\ tokScanner' = scanner
           /\ \E allContent \in {ScanContent(scanner, text)} :
                tokLast' = TokCall("scan", text, "en", <<>>,
                                   getTokens(scanner, allContent, "en"))
     IN Initialized([tokScanner EXCEPT
                       !.replacements = initializeReplacements(tokScanner, imported)])
  /\ tokCalls' = tokCalls + 1

---------------------------------------------------------------------------
(* Properties of tokenizing and stemming (SpecTokens)                      *)

\* a scanner with the configuration of the model's scanner on which nothing
\* has been called yet
FreshTokenScanner == NewTokenScanner(tokScanner.config)

StemsForAbsentLocale ==
  /\ tokLast.made
  /\ tokLast.op \in {"stemText", "getEnhancedStemming", "stemword",
                      "stemwordAdvanced"}
  /\ tokLast.locale \in AbsentLocales

C18_UnsupportedLocaleThrows ==
  /\ StemsForAbsentLocale
  /\ "fallbackToOriginal" \in DOMAIN tokLast.options
  /\ ~OptionOr(tokLast.options, "fallbackToOriginal", TRUE)
  /\ IF tokLast.op = "stemText"
       THEN getTokens(tokScanner, tokLast.input, tokLast.locale).value # <<>>
       ELSE \E k \in 1..Len(tokLast.input) : tokLast.input[k] # <<>>
  => tokLast.outcome = ThrownError("UnavailableAlgorithmError")

\* C30: for a locale of the stemmer registry, stemText(text, locale) returns
\* the token sequence getTokens(text, locale) returns on the same scanner:
\* each token stemmed once, and hashed tokens as getTokens hashed them.
C30_StemTextStemsOnce ==
  ( /\ tokLast.made /\ tokLast.op = "stemText"
    /\ LanguageLower(tokLast.locale) \in DOMAIN LANGUAGE_MAP ) =>
    tokLast.outcome = getTokens(tokScanner, tokLast.input, tokLast.locale)

---------------------------------------------------------------------------
(* Scans that run at the same time on one scanner (mod.ts)                 *)

VARIABLES
  conConfig,      \* this.config: whether options.classifier was given
  conClassifier,  \* this.classifier: 0 for null, else the number of the
                  \* NaiveBayes instance
  conBuilt,       \* how many NaiveBayes instances have been constructed
  conMetrics,     \* this.metrics
  conClock,       \* Date.now()
  conScans,       \* the calls of scan: where each is, what it was given,
                  \* its startTime, the classifier it categorized with and
                  \* its processingTime
  conCompleted    \* the scans that returned a result, in that order

conVars ==
  <<conConfig, conClassifier, conBuilt, conMetrics, conClock, conScans,
    conCompleted>>

\* calls of scan on the scanner, and the time that passes meanwhile
MaxConcurrent == 3
MaxClock == 3

\* this.metrics after the constructor
NewMetrics == [totalScans |-> 0, averageTime |-> RZero, lastScanTime |-> 0]

\* (variant: the running average weighs the old average with the new count)
updateMetricsByCount(counters, processingTime) ==
  LET Counted(totalScans) ==
        [ totalScans |-> totalScans,
          lastScanTime |-> processingTime,
          averageTime |->
            RMul(RAdd(RMul(counters.averageTime, R(totalScans, 1)),
                      R(processingTime, 1)),
                 R(1, totalScans)) ]
  IN Counted(counters.totalScans + 1)

\* the update of this.metrics in scan, which no await interrupts
updateMetrics(counters, processingTime) ==
  LET Counted(totalScans) ==
        [ totalScans |-> totalScans,
          lastScanTime |-> processingTime,
          averageTime |->
            RMul(RAdd(RMul(counters.averageTime, R(totalScans - 1, 1)),
                      R(processingTime, 1)),
                 R(1, totalScans)) ]
  IN Counted(counters.totalScans + 1)

\* a call of scan that has not been made yet
NotCalled ==
  [pc |-> "idle", source |-> "", startTime |-> 0, used |-> 0, processingTime |-> 0]

IdleConcurrent ==
  /\ conConfig = [classifier |-> FALSE]
  /\ conClassifier = 0
  /\ conBuilt = 0
  /\ conMetrics = NewMetrics
  /\ conClock = 0
  /\ conScans = [c \in 1..MaxConcurrent |-> NotCalled]
  /\ conCompleted = <<>>

\* new SpamScanner(options), with options.classifier or without
InitConcurrentVars ==
  /\ conConfig \in [classifier : BOOLEAN]
  /\ conClassifier = 0
  /\ conBuilt = 0
  /\ conMetrics = NewMetrics
  /\ conClock = 0
  /\ conScans = [c \in 1..MaxConcurrent |-> NotCalled]
  /\ conCompleted = <<>>

\* scan(source) is called, while earlier calls may still be running: it
\* takes startTime and runs initializeClassifier up to its first await.
\* With this.classifier set there is nothing to do; with config.classifier
\* the instance is constructed at once; else getClassifier() is awaited.
ConScan(c, source) ==
  /\ conScans[c].pc = "idle"
  /\ \A before \in 1..(c - 1) : conScans[before].pc # "idle"
  /\ IF conClassifier # 0
       THEN /\ conScans' = [conScans EXCEPT ![c] =
                   [@ EXCEPT !.pc = "initialized", !.source = source,
                             !.startTime = conClock]]
            /\ UNCHANGED <<conClassifier, conBuilt>>
       ELSE IF conConfig.classifier
         THEN /\ conScans' = [conScans EXCEPT ![c] =
                     [@ EXCEPT !.pc = "initialized", !.source = source,
                               !.startTime = conClock]]
              /\ conBuilt' = conBuilt + 1
              /\ conClassifier' = conBuilt + 1
         ELSE /\ conScans' = [conScans EXCEPT ![c] =
                     [@ EXCEPT !.pc = "import", !.source = source,
                               !.startTime = conClock]]
              /\ UNCHANGED <<conClassifier, conBuilt>>
  /\ UNCHANGED <<conConfig, conMetrics, conClock, conCompleted>>

\* initializeClassifier after its await getClassifier(): a NaiveBayes
\* instance is constructed from the data (or, in the catch, without) and
\* stored in this.classifier, whatever is there by now
ConClassifierLoaded(c) ==
  /\ conScans[c].pc = "import"
  /\ conBuilt' = conBuilt + 1
  /\ conClassifier' = conBuilt + 1
  /\ conScans' = [conScans EXCEPT ![c].pc = "initialized"]
  /\ UNCHANGED <<conConfig, conMetrics, conClock, conCompleted>>

\* scan after initializeReplacements and getTokensAndMailFromSource:
\* readFileSync throws for a directory and scan rejects; else the detector
\* tasks start, getClassification categorizing with this.classifier
ConDetect(c) ==
  /\ conScans[c].pc = "initialized"
  /\ conScans' = [conScans EXCEPT ![c] =
        IF @.source = "directory" THEN [@ EXCEPT !.pc = "rejected"]
        ELSE [@ EXCEPT !.pc = "awaiting", !.used = conClassifier]]
  /\ UNCHANGED <<conConfig, conClassifier, conBuilt, conMetrics, conClock,
                 conCompleted>>

\* scan after Promise.all: processingTime, the update of this.metrics and
\* the result
ConSettle(c) ==
  /\ conScans[c].pc = "awaiting"
  /\ conMetrics' = updateMetrics(conMetrics, conClock - conScans[c].startTime)
  /\ conScans' = [conScans EXCEPT ![c] =
        [@ EXCEPT !.pc = "resolved",
                  !.processingTime = conClock - conScans[c].startTime]]
  /\ conCompleted' = Append(conCompleted, c)
  /\ UNCHANGED <<conConfig, conClassifier, conBuilt, conClock>>

\* a millisecond passes
ConTick ==
  /\ conClock < MaxClock
  /\ conClock' = conClock + 1
  /\ UNCHANGED <<conConfig, conClassifier, conBuilt, conMetrics, conScans,
                 conCompleted>>

---------------------------------------------------------------------------
(* Properties of scans that run at the same time                           *)

\* C22: with several scans running at the same time on one scanner, the
\* classifier is constructed at most once, and every scan categorizes with
\* that one instance.
C22_ClassifierConstructedOnce ==
  /\ conBuilt <= 1
  /\ \A c \in 1..MaxConcurrent : conScans[c].used \in {0, 1}

RECURSIVE SumOf(_)
SumOf(numbers) ==
  IF numbers = <<>> THEN 0 ELSE Head(numbers) + SumOf(Tail(numbers))

\* the processingTime of the scans that returned a result, in the order in
\* which they returned
CompletedTimes ==
  [k \in 1..Len(conCompleted) |-> conScans[conCompleted[k]].processingTime]

\* C23: whatever the interleaving of the scans, the counters lose no
\* update: totalScans is the number of scans that returned a result,
\* lastScanTime the duration of the one that returned last and averageTime
\* the mean of their durations; a scan that rejects is not counted.
C23_CountersWithoutLostUpdate ==
  /\ conMetrics.totalScans
       = Cardinality({c \in 1..MaxConcurrent : conScans[c].pc = "resolved"})
  /\ conMetrics.totalScans = Len(conCompleted)
  /\ IF conCompleted = <<>>
       THEN conMetrics = NewMetrics
       ELSE /\ conMetrics.lastScanTime = CompletedTimes[Len(conCompleted)]
            /\ conMetrics.averageTime
                 = R(SumOf(CompletedTimes), Len(conCompleted))

\* three scans were running at the same time; the second returned first,
\* the first after it with another duration, the third was rejected
C23_Witness ==
  /\ conCompleted = <<2, 1>>
  /\ conScans[3].pc = "rejected"
  /\ conScans[3].startTime <= conScans[2].startTime + conScans[2].processingTime
  /\ conScans[1].processingTime = 3
  /\ conScans[2].processingTime = 1
  /\ conMetrics = [totalScans |-> 2, averageTime |-> R(2, 1), lastScanTime |-> 3]

---------------------------------------------------------------------------
(* Specifications                                                          *)

vars ==
  <<analyzer, idnLast, idnCalls, verdictIn, verdictOut, config, classifier,
    clamscan, analyzers, idnDetector, metrics, scans, scan, tasks,
    tokScanner, tokLast, tokCalls, conConfig, conClassifier, conBuilt,
    conMetrics, conClock, conScans, conCompleted>>

InitIDN ==
  InitIDNVars /\ IdleVerdict /\ IdleScan /\ IdleTokens /\ IdleConcurrent

NextIDN == NextIDNVars /\ UNCHANGED <<verdictVars, scanVars, tokVars, conVars>>

SpecIDN == InitIDN /\ [][NextIDN]_vars

InitVerdict ==
  InitVerdictVars /\ IdleIDN /\ IdleScan /\ IdleTokens /\ IdleConcurrent

NextVerdict ==
  NextVerdictVars /\ UNCHANGED <<idnVars, scanVars, tokVars, conVars>>

SpecVerdict == InitVerdict /\ [][NextVerdict]_vars

Init == InitScanVars /\ IdleIDN /\ IdleVerdict /\ IdleTokens /\ IdleConcurrent

\* the steps of a scanner; nothing else of the model moves
Next ==
  \/ /\ \E source \in Sources(config) : \E answers \in AnswersFor(source.mail) :
          Scan(source, answers)
     /\ UNCHANGED <<idnVars, verdictVars, tokVars, conVars>>
  \/ DnsAnswer /\ UNCHANGED <<idnVars, verdictVars, tokVars, conVars>>
  \/ DnsTimeout /\ UNCHANGED <<idnVars, verdictVars, tokVars, conVars>>
  \/ PhishingImportDone /\ UNCHANGED <<idnVars, verdictVars, tokVars, conVars>>
  \/ HomographImportDone /\ UNCHANGED <<idnVars, verdictVars, tokVars, conVars>>
  \/ ClamInitDone /\ UNCHANGED <<idnVars, verdictVars, tokVars, conVars>>
  \/ ClamScanDone /\ UNCHANGED <<idnVars, verdictVars, tokVars, conVars>>
  \/ ClamScanTimeout /\ UNCHANGED <<idnVars, verdictVars, tokVars, conVars>>
  \/ ScanSettle /\ UNCHANGED <<idnVars, verdictVars, tokVars, conVars>>

Spec == Init /\ [][Next]_vars

InitLookup ==
  IdleScan /\ IdleIDN /\ IdleVerdict /\ IdleTokens /\ IdleConcurrent

\* the steps of a scanner with the default configuration that scans the
\* message with two links
NextLookup ==
  \/ /\ \E source \in LookupSources : \E answers \in LookupAnswers :
          Scan(source, answers)
     /\ UNCHANGED <<idnVars, verdictVars, tokVars, conVars>>
  \/ DnsAnswer /\ UNCHANGED <<idnVars, verdictVars, tokVars, conVars>>
  \/ DnsTimeout /\ UNCHANGED <<idnVars, verdictVars, tokVars, conVars>>
  \/ PhishingImportDone /\ UNCHANGED <<idnVars, verdictVars, tokVars, conVars>>
  \/ HomographImportDone /\ UNCHANGED <<idnVars, verdictVars, tokVars, conVars>>
  \/ ClamInitDone /\ UNCHANGED <<idnVars, verdictVars, tokVars, conVars>>
  \/ ScanSettle /\ UNCHANGED <<idnVars, verdictVars, tokVars, conVars>>

SpecLookup == InitLookup /\ [][NextLookup]_vars

InitTokens ==
  InitTokenVars /\ IdleIDN /\ IdleVerdict /\ IdleScan /\ IdleConcurrent

\* the calls on a scanner and on the stemmer module
NextTokens ==
  \/ /\ \E text \in Texts : \E locale \in Locales : GetTokens(text, locale)
     /\ UNCHANGED <<idnVars, verdictVars, scanVars, conVars>>
  \/ /\ \E text \in Texts : \E locale \in Locales : \E options \in StemOptions :
          StemText(text, locale, options)
     /\ UNCHANGED <<idnVars, verdictVars, scanVars, conVars>>
  \/ /\ \E tokens \in TokenSeqs : \E locale \in Locales :
          \E options \in StemOptions :
            GetEnhancedStemming(tokens, locale, options)
     /\ UNCHANGED <<idnVars, verdictVars, scanVars, conVars>>
  \/ /\ \E tokens \in TokenSeqs : \E language \in Locales \ {""} :
          Stemword(tokens, language)
     /\ UNCHANGED <<idnVars, verdictVars, scanVars, conVars>>
  \/ /\ \E tokens \in TokenSeqs : \E language \in Locales \ {""} :
          \E fallbackToOriginal \in BOOLEAN :
            StemwordAdvanced(tokens, language, fallbackToOriginal)
     /\ UNCHANGED <<idnVars, verdictVars, scanVars, conVars>>
  \/ /\ \E text \in Texts : \E imported \in BOOLEAN : ScanTokens(text, imported)
     /\ UNCHANGED <<idnVars, verdictVars, scanVars, conVars>>

SpecTokens == InitTokens /\ [][NextTokens]_vars

InitConcurrent ==
  InitConcurrentVars /\ IdleIDN /\ IdleVerdict /\ IdleScan /\ IdleTokens

\* the steps of the scans that run at the same time, and of the clock
NextConcurrent ==
  \/ /\ \E c \in 1..MaxConcurrent : \E source \in {"message", "directory"} :
          ConScan(c, source)
     /\ UNCHANGED <<idnVars, verdictVars, scanVars, tokVars>>
  \/ /\ \E c \in 1..MaxConcurrent : ConClassifierLoaded(c)
     /\ UNCHANGED <<idnVars, verdictVars, scanVars, tokVars>>
  \/ /\ \E c \in 1..MaxConcurrent : ConDetect(c)
     /\ UNCHANGED <<idnVars, verdictVars, scanVars, tokVars>>
  \/ /\ \E c \in 1..MaxConcurrent : ConSettle(c)
     /\ UNCHANGED <<idnVars, verdictVars, scanVars, tokVars>>
  \/ ConTick /\ UNCHANGED <<idnVars, verdictVars, scanVars, tokVars>>

SpecConcurrent == InitConcurrent /\ [][NextConcurrent]_vars

=============================================================================
